---- MODULE Spec2Model ----
(***************************************************************************)
(* Record lock manager and record access layer of the orphaned-wells UI    *)
(* server (app/internal/data_manager.py, class DataManager).               *)
(*                                                                         *)
(* The lock store is the MongoDB collection locked_records, a set of       *)
(* documents {record_id, user, timestamp}.  The specifications:            *)
(*   Spec        the lock manager: tryLockingRecord and releaseRecord run  *)
(*               to completion one after the other, the wall clock         *)
(*               advances between calls;                                   *)
(*   SpecAccess  fetchRecordData and updateRecord, called by clients that  *)
(*               send back the document they fetched, one call at a time;  *)
(*   SpecConc    request handlers run tryLockingRecord concurrently, one   *)
(*               database operation per step;                              *)
(*   SpecLive    the lock manager with sessions that are abandoned, the    *)
(*               clock advancing and the remaining users retrying;         *)
(*   SpecFault   the lock manager with lock-store operations that raise;   *)
(*   SpecReview  fetchRecordData and updateRecord with every kind of       *)
(*               request, cleaning included, and the extraction pipeline;  *)
(*   SpecAudit   updateRecord with records and history operations that     *)
(*               raise;                                                    *)
(*   SpecStale   SpecAccess with a longer history: each client updates;    *)
(*   SpecClean   cleanCollection over the records of a record group;       *)
(*   SpecSort    sortRecordAttributes applied to attribute lists and       *)
(*               processors;                                               *)
(*   SpecDelete  deleteRecord, deleteRecordGroup and deleteProject;        *)
(*   SpecNav     the record index and the previous and next record of a    *)
(*               fetched record;                                           *)
(*   SpecRaw     SpecReview with a client that rewrites raw_text;          *)
(*   SpecExtract process_image on the entities of the extraction service;  *)
(*   SpecCaller  the lock manager with updateRecordReviewStatus and        *)
(*               updateRecord called on records named by id;               *)
(*   SpecGuard   updateRecord, updateRecordNotes, deleteRecord and         *)
(*               cleanCollection on a record another user has locked;      *)
(*   SpecRace    cleanCollection, one database operation per step, while   *)
(*               a reviewer updates the record.                            *)
(***************************************************************************)
EXTENDS Integers, Sequences, FiniteSets, TLC

(* ---------------------------------------------------------------------- *)
(* Universe                                                                *)
(* ---------------------------------------------------------------------- *)
Users == {"A", "B"}
Records == {"R1", "R2"}
\* an id no record has, and the id of a record whose extraction is pending
Missing == "R0"
Uploaded == "R3"
Procs == {"p1", "p2"}
None == "None"

\* self.lock_duration = 120
lock_duration == 120

\* the wall clock (time.time()) starts at 0 and is read at these instants: the
\* lock duration and one second more after 0, and the same after those
MaxTime == 242
MaxAccessTime == 121
Instants(max) ==
    {t \in {lock_duration, lock_duration + 1,
            2 * lock_duration + 1, 2 * lock_duration + 2} : t <= max}

\* the history collection holds at most MaxHist entries
MaxHist == 2
\* in SpecAccess, where two clients update, at most MaxAccessHist entries
MaxAccessHist == 1

VARIABLES
    locked_records,  \* db.locked_records: set of lock documents
    records,         \* db.records: the document of each record id
    history,         \* db.history: the audit entries, in insertion order
    now,             \* time.time()
    last,            \* the last completed DataManager call and what it returned
    copy,            \* the document each user's client fetched last
    scenario,        \* progress of the fetch/fetch/update/fetch scenario
    pc,              \* SpecConc: position of each request handler in tryLockingRecord
    call,            \* SpecConc: arguments and locals of each handler's call
    active,          \* SpecLive: the users whose session still issues calls
    db               \* the other collections: record_groups, projects, deleted_records

vars == <<locked_records, records, history, now, last, copy, scenario, pc, call,
          active, db>>

LockDoc(r, u, t) == [record_id |-> r, user |-> u, timestamp |-> t]

(* ---------------------------------------------------------------------- *)
(* Lock store operations                                                   *)
(* ---------------------------------------------------------------------- *)

\* db.locked_records.find({"record_id": record_id})
FindLocks(L, record_id) == {d \in L : d.record_id = record_id}

\* db.locked_records.update_one(query, {"$set": data}, upsert=True):
\* the first document matching record_id is overwritten, or data is inserted
UpsertInsertsAlways(L, record_id, data) == L \cup {data}

UpsertLock(L, record_id, data) ==
    IF FindLocks(L, record_id) = {}
    THEN L \cup {data}
    ELSE LET old == CHOOSE d \in FindLocks(L, record_id) : TRUE
         IN  (L \ {old}) \cup {data}

\* releaseRecord(record_id=None, user=None)
releaseRecord(L, record_id, user) ==
    IF record_id # None
    THEN {d \in L : d.record_id # record_id}
    ELSE IF user # None
         THEN {d \in L : d.user # user}
         ELSE L

\* lockRecord(record_id, user, release_previous_record), time.time() = t
LockRecordNeverReleases(L, record_id, user, release_previous_record, t) ==
    UpsertLock(L, record_id, LockDoc(record_id, user, t))

LockRecordKeepsTime(L, record_id, user, release_previous_record, t) ==
    LET old == CHOOSE d \in FindLocks(L, record_id) : TRUE
        ts == IF FindLocks(L, record_id) = {} THEN t ELSE old.timestamp
    IN  UpsertLock(L, record_id, LockDoc(record_id, user, ts))

lockRecord(L, record_id, user, release_previous_record, t) ==
    LET released == IF release_previous_record
                    THEN releaseRecord(L, None, user)
                    ELSE L
    IN  UpsertLock(released, record_id, LockDoc(record_id, user, t))

\* elif locked_time + self.lock_duration < current_time
ExpiredAtBoundary(locked_time, current_time) ==
    locked_time + lock_duration <= current_time

ExpiredNever(locked_time, current_time) == FALSE

LockExpired(locked_time, current_time) ==
    locked_time + lock_duration < current_time

\* the branch tryLockingRecord takes on what find() returned
\*   "reenter"  lockholder == user
\*   "takeover" the lock of another user is expired
\*   "denied"   the lock of another user is still valid
\*   "free"     the record is unlocked
BranchIgnoresHolder(found, user, current_time) ==
    IF found = {} THEN "free" ELSE "reenter"

LockBranch(found, user, current_time) ==
    IF found = {}
    THEN "free"
    ELSE LET locked_record_document == CHOOSE d \in found : TRUE
             locked_time == locked_record_document.timestamp
             lockholder == locked_record_document.user
         IN  IF lockholder = user
             THEN "reenter"
             ELSE IF LockExpired(locked_time, current_time)
                  THEN "takeover"
                  ELSE "denied"

\* tryLockingRecord(record_id, user) run to completion at time t:
\* the lock store it leaves and the value it returns
tryLockingRecord(L, record_id, user, t) ==
    LET branch == LockBranch(FindLocks(L, record_id), user, t)
    IN  CASE branch = "reenter" ->
               [locks |-> lockRecord(L, record_id, user, FALSE, t), attained_lock |-> TRUE]
          [] branch = "takeover" ->
               [locks |-> lockRecord(L, record_id, user, TRUE, t), attained_lock |-> TRUE]
          [] branch = "denied" ->
               [locks |-> L, attained_lock |-> FALSE]
          [] branch = "free" ->
               [locks |-> lockRecord(L, record_id, user, TRUE, t), attained_lock |-> TRUE]

\* the lock-store operations tryLockingRecord and lockRecord call
StoreOps == {"find", "delete_many", "update_one"}

\* lockRecord when the store operation named raises raises an exception (an
\* operation that raises has changed nothing): the lock store it leaves and
\* whether the exception was raised
lockRecordRaising(L, record_id, user, release_previous_record, t, raises) ==
    IF release_previous_record /\ raises = "delete_many"
    THEN [locks |-> L, raised |-> TRUE]
    ELSE LET released == IF release_previous_record
                         THEN releaseRecord(L, None, user)
                         ELSE L
         IN  IF raises = "update_one"
             THEN [locks |-> released, raised |-> TRUE]
             ELSE [locks |-> UpsertLock(released, record_id, LockDoc(record_id, user, t)),
                   raised |-> FALSE]

\* tryLockingRecord when the store operation named raises raises: the
\* exception is caught by the except clause, which returns False
tryLockingRecordRaising(L, record_id, user, t, raises) ==
    IF raises = "find"
    THEN [locks |-> L, attained_lock |-> FALSE, raised |-> TRUE]
    ELSE LET branch == LockBranch(FindLocks(L, record_id), user, t)
             lock == lockRecordRaising(L, record_id, user, branch # "reenter", t, raises)
         IN  IF branch = "denied"
             THEN [locks |-> L, attained_lock |-> FALSE, raised |-> FALSE]
             ELSE [locks |-> lock.locks, attained_lock |-> ~lock.raised,
                   raised |-> lock.raised]

(* ---------------------------------------------------------------------- *)
(* Documents of the records, processors and history collections           *)
(* ---------------------------------------------------------------------- *)

\* a result of None where a document is expected
NoDocument == [_id |-> None]

EmptyDoc == [k \in {} |-> None]

\* dict.get(key, default)
Get(d, key, default) == IF key \in DOMAIN d THEN d[key] ELSE default

\* the effect of {"$set": upd} on a document
SetFields(doc, upd) ==
    [k \in DOMAIN doc \cup DOMAIN upd |-> IF k \in DOMAIN upd THEN upd[k] ELSE doc[k]]

\* the record group of each record, and the record groups of the projects
\* of each user (getUserRecordGroups)
RecordGroupOf(record_id) == IF record_id = "R1" THEN "G1" ELSE "G2"

getUserRecordGroups(user) ==
    IF user = "A" THEN {"G1", "G2"}
    ELSE IF user = "B" THEN {"G1"}
    ELSE {}

\* the attributes of the processor of every record group: k1 has a cleaning
\* function and a subattribute s with a cleaning function, k2 has none
ProcessorAttributes ==
    << [name |-> "k2", page_order_sort |-> 2, cleaning_function |-> None,
        subattributes |-> <<>>],
       [name |-> "k1", page_order_sort |-> 1, cleaning_function |-> "clean_bool",
        subattributes |-> <<[name |-> "s", cleaning_function |-> "string_to_int"]>>] >>

\* a value of None where time.time() is expected
NoTime == -1

\* createNewAttribute(key=attribute_name); a subattributes value of None is
\* the empty list (the code reads it with `is not None` and `if subattributes`
\* only before iterating)
createNewAttribute(key) ==
    [key |-> key, ai_confidence |-> None, confidence |-> None, raw_text |-> None,
     value |-> None, normalized_value |-> None, subattributes |-> <<>>,
     isSubattribute |-> FALSE, edited |-> FALSE]

\* an attribute as the extraction pipeline stores it: value is the normalized
\* value if the extraction service gave one, else the raw text; a subattribute
\* gets the confidence of its parent as ai_confidence
ExtractedSubattribute(parent, key) ==
    [key |-> key, ai_confidence |-> "c90", confidence |-> "c50",
     raw_text |-> "sraw", value |-> "norm", normalized_value |-> "norm",
     isSubattribute |-> TRUE, topLevelAttribute |-> parent, edited |-> FALSE]

ExtractedAttribute(key) ==
    [key |-> key, ai_confidence |-> "c90", confidence |-> "c90",
     raw_text |-> "raw", value |-> "raw", normalized_value |-> "",
     subattributes |-> IF key = "k1" THEN <<ExtractedSubattribute(key, "s")>> ELSE <<>>,
     isSubattribute |-> FALSE, edited |-> FALSE]

RECURSIVE InsertByPageOrder(_, _)
InsertByPageOrder(sorted, x) ==
    IF sorted = <<>> THEN <<x>>
    ELSE IF x.page_order_sort < Head(sorted).page_order_sort
         THEN <<x>> \o sorted
         ELSE <<Head(sorted)>> \o InsertByPageOrder(Tail(sorted), x)

SortKeepsListOrder(s) == s

\* processor_attributes.sort(key=page_order_sort), a stable sort
RECURSIVE SortByPageOrder(_)
SortByPageOrder(s) ==
    IF s = <<>> THEN <<>>
    ELSE InsertByPageOrder(SortByPageOrder(SubSeq(s, 1, Len(s) - 1)), s[Len(s)])

\* [item for item in attributes if item["key"] == attribute_name]
RECURSIVE FoundAttributes(_, _)
FoundAttributes(attributes, attribute_name) ==
    IF attributes = <<>> THEN <<>>
    ELSE (IF Head(attributes).key = attribute_name THEN <<Head(attributes)>> ELSE <<>>)
         \o FoundAttributes(Tail(attributes), attribute_name)

RECURSIVE MatchProcessorAttributes(_, _)
MatchProcessorAttributes(attributes, processor_attributes) ==
    IF processor_attributes = <<>> THEN <<>>
    ELSE LET attribute_name == Head(processor_attributes).name
             found == FoundAttributes(attributes, attribute_name)
         IN  (IF found = <<>> THEN <<createNewAttribute(attribute_name)>> ELSE found)
             \o MatchProcessorAttributes(attributes, Tail(processor_attributes))

SortFlagsSynthesisOnly(attributes, processor_attributes) ==
    LET sorted_schema == SortByPageOrder(processor_attributes)
        missing == \E i \in 1..Len(sorted_schema) :
                      FoundAttributes(attributes, sorted_schema[i].name) = <<>>
    IN  << MatchProcessorAttributes(attributes, sorted_schema),
           missing >>

\* sortRecordAttributes(attributes, processor) with keep_all_attributes=False
\* and top-level processor attributes (no "::" in a name): the pair
\* (sorted_attributes, requires_db_update)
sortRecordAttributes(attributes, processor_attributes) ==
    LET sorted_schema == SortByPageOrder(processor_attributes)
        missing == \E i \in 1..Len(sorted_schema) :
                      FoundAttributes(attributes, sorted_schema[i].name) = <<>>
    IN  << MatchProcessorAttributes(attributes, sorted_schema),
           Len(sorted_schema) > 0 \/ missing >>

\* a processor document as sortRecordAttributes reads it: None, without the
\* key "attributes", or with its list of attributes
NoProcessor == [found |-> FALSE, has_attributes |-> FALSE, attributes |-> <<>>]

Processor(processor_attributes) ==
    [found |-> TRUE, has_attributes |-> TRUE, attributes |-> processor_attributes]

ObsoleteKeepsAll(attributes, processor_attributes) == attributes

\* for attr in attributes: if attr["key"] not in processor_attributes_dict
RECURSIVE ObsoleteAttributes(_, _)
ObsoleteAttributes(attributes, processor_attributes) ==
    IF attributes = <<>> THEN <<>>
    ELSE (IF \E i \in 1..Len(processor_attributes) :
                processor_attributes[i].name = Head(attributes).key
          THEN <<>> ELSE <<Head(attributes)>>)
         \o ObsoleteAttributes(Tail(attributes), processor_attributes)

\* sortRecordAttributes(attributes, processor, keep_all_attributes), whole
sortRecordAttributesOf(attributes, processor, keep_all_attributes) ==
    IF ~processor.found \/ ~processor.has_attributes
    THEN <<attributes, FALSE>>
    ELSE LET res == sortRecordAttributes(attributes, processor.attributes)
         IN  IF keep_all_attributes
             THEN <<res[1] \o ObsoleteAttributes(attributes, processor.attributes), res[2]>>
             ELSE res

\* a record as upload and extraction leave it: digitized, unreviewed, one
\* attribute per processor attribute
\* process_document: the record createRecord inserts, without attributes
UploadedRecord(record_id) ==
    [_id |-> record_id,
     record_group_id |-> RecordGroupOf(record_id),
     filename |-> "f.png",
     status |-> "processing",
     review_status |-> "unreviewed"]

\* process_image: the record it passes to updateRecord(update_type="record",
\* forceUpdate=True) when the extraction has succeeded
ExtractionResult(record_id) ==
    [record_group_id |-> RecordGroupOf(record_id),
     attributesList |-> <<ExtractedAttribute("k1"), ExtractedAttribute("k2")>>,
     filename |-> "f.png",
     status |-> "digitized"]

NewRecord(record_id) ==
    SetFields(UploadedRecord(record_id), ExtractionResult(record_id))

(* ---------------------------------------------------------------------- *)
(* Record access layer                                                     *)
(* ---------------------------------------------------------------------- *)

\* db.records.update_one({"_id": _id}, {"$set": data_update})
UpdateOneRecord(recs, record_id, data_update) ==
    IF recs[record_id] = NoDocument
    THEN recs
    ELSE [recs EXCEPT ![record_id] = SetFields(@, data_update)]

\* fetchRecordData(record_id, user_info) at time t: the lock store it leaves
\* and the pair (document, is_locked) it returns
FetchFailsWhenLocked(L, recs, t, record_id, user) ==
    LET lock == tryLockingRecord(L, record_id, user, t)
    IN  IF lock.attained_lock
        THEN [locks |-> lock.locks, document |-> recs[record_id], is_locked |-> FALSE]
        ELSE [locks |-> lock.locks, document |-> NoDocument, is_locked |-> TRUE]

FetchLocksBeforeScope(L, recs, t, record_id, user) ==
    LET document == recs[record_id]
        lock == tryLockingRecord(L, record_id, user, t)
    IN  IF document = NoDocument
        THEN [locks |-> L, document |-> NoDocument, is_locked |-> FALSE]
        ELSE IF document.record_group_id \notin getUserRecordGroups(user)
        THEN [locks |-> lock.locks, document |-> NoDocument, is_locked |-> FALSE]
        ELSE [locks |-> lock.locks,
              document |-> [document EXCEPT !.attributesList =
                  sortRecordAttributes(document.attributesList, ProcessorAttributes)],
              is_locked |-> ~lock.attained_lock]

fetchRecordData(L, recs, t, record_id, user) ==
    LET document == recs[record_id]
    IN  IF document = NoDocument
        THEN [locks |-> L, document |-> NoDocument, is_locked |-> FALSE]
        ELSE IF document.record_group_id \notin getUserRecordGroups(user)
        THEN [locks |-> L, document |-> NoDocument, is_locked |-> FALSE]
        ELSE LET lock == tryLockingRecord(L, record_id, user, t)
                 sorted_attributes ==
                     sortRecordAttributes(document.attributesList, ProcessorAttributes)
             IN  [locks |-> lock.locks,
                  document |-> IF "attributesList" \in DOMAIN document
                               THEN [document EXCEPT !.attributesList = sorted_attributes]
                               ELSE document,
                  is_locked |-> ~lock.attained_lock]

\* resetRecord(record_id, record_data, user); a cleaning_error of False is
\* the string "False", an error message is another string
ResetSubattribute(subattribute) ==
    SetFields(subattribute,
        [value |-> subattribute.raw_text,
         confidence |-> Get(subattribute, "ai_confidence", None),
         edited |-> FALSE, cleaning_error |-> "False", uncleaned_value |-> None,
         cleaned |-> FALSE, last_cleaned |-> NoTime])

ResetAttributeKeepsSubattributes(attribute) ==
    SetFields(attribute,
        [value |-> attribute.raw_text, confidence |-> attribute.ai_confidence,
         edited |-> FALSE, cleaning_error |-> "False", uncleaned_value |-> None,
         cleaned |-> FALSE, last_cleaned |-> NoTime])

ResetAttribute(attribute) ==
    SetFields(attribute,
        [value |-> attribute.raw_text, confidence |-> attribute.ai_confidence,
         edited |-> FALSE, cleaning_error |-> "False", uncleaned_value |-> None,
         cleaned |-> FALSE, last_cleaned |-> NoTime,
         subattributes |-> [j \in 1..Len(attribute.subattributes) |->
                               ResetSubattribute(attribute.subattributes[j])]])

resetRecord(record_data) ==
    [review_status |-> "unreviewed",
     attributesList |-> [i \in 1..Len(record_data.attributesList) |->
                            ResetAttribute(record_data.attributesList[i])],
     verification_status |-> None]

\* util.CLEANING_FUNCTIONS: the names of the registry
CLEANING_FUNCTIONS ==
    {"clean_bool", "string_to_int", "string_to_float", "string_to_date",
     "clean_date", "convert_hole_size_to_decimal", "llm_clean"}

\* what a cleaning function of the registry returns when it does not raise:
\* the functions are those of the package ogrre_data_cleaning, so the result
\* is the term f(v), of which nothing more is known
CleanedValue(cleaning_function_name, unclean_val) ==
    cleaning_function_name \o "(" \o unclean_val \o ")"

\* convert_processor_attributes_to_dict(attributes): the entries of the dict,
\* a subattribute under the key "<parent>::<sub>"
convert_processor_attributes_to_dict(attributes) ==
    UNION {{[key |-> attributes[i].name,
             cleaning_function |-> attributes[i].cleaning_function]}
           \cup {[key |-> attributes[i].name \o "::" \o attributes[i].subattributes[j].name,
                   cleaning_function |-> attributes[i].subattributes[j].cleaning_function] :
                     j \in 1..Len(attributes[i].subattributes)} :
             i \in 1..Len(attributes)}

\* processor_attributes.get(attribute_key)
NoSchema == [key |-> None, cleaning_function |-> None]

SchemaGet(processor_attributes, attribute_key) ==
    IF \E e \in processor_attributes : e.key = attribute_key
    THEN CHOOSE e \in processor_attributes : e.key = attribute_key
    ELSE NoSchema

CleanValueKeepsFirstUncleaned(processor_attributes, attribute, attribute_key, t, raising) ==
    LET attribute_schema == SchemaGet(processor_attributes, attribute_key)
        cleaning_function_name == attribute_schema.cleaning_function
        unclean_val == attribute.value
        cleaned_val == CleanedValue(cleaning_function_name, unclean_val)
    IN  IF attribute_schema = NoSchema
        THEN [attribute |-> attribute, subattributes_next |-> FALSE]
        ELSE IF cleaning_function_name = "" \/ cleaning_function_name = None
        THEN [attribute |-> SetFields(attribute, [cleaned |-> FALSE]),
              subattributes_next |-> FALSE]
        ELSE IF cleaning_function_name \notin CLEANING_FUNCTIONS
        THEN [attribute |-> attribute, subattributes_next |-> TRUE]
        ELSE IF attribute_key \in raising
        THEN [attribute |-> SetFields(attribute,
                               [cleaning_error |-> "error", cleaned |-> FALSE]),
              subattributes_next |-> TRUE]
        ELSE [attribute |-> SetFields(attribute,
                               [value |-> cleaned_val, normalized_value |-> cleaned_val,
                                uncleaned_value |-> Get(attribute, "uncleaned_value", unclean_val), cleaned |-> TRUE,
                                cleaning_error |-> "False", last_cleaned |-> t]),
              subattributes_next |-> FALSE]


CleanValueMarksUnconfigured(processor_attributes, attribute, attribute_key, t, raising) ==
    LET attribute_schema == SchemaGet(processor_attributes, attribute_key)
        cleaning_function_name == attribute_schema.cleaning_function
        unclean_val == attribute.value
        cleaned_val == CleanedValue(cleaning_function_name, unclean_val)
    IN  IF attribute_schema = NoSchema
        THEN [attribute |-> attribute, subattributes_next |-> FALSE]
        ELSE IF cleaning_function_name = "" \/ cleaning_function_name = None
        THEN [attribute |-> SetFields(attribute,
                               [cleaned |-> FALSE, cleaning_error |-> "error"]),
              subattributes_next |-> FALSE]
        ELSE IF cleaning_function_name \notin CLEANING_FUNCTIONS
        THEN [attribute |-> attribute, subattributes_next |-> TRUE]
        ELSE IF attribute_key \in raising
        THEN [attribute |-> SetFields(attribute,
                               [cleaning_error |-> "error", cleaned |-> FALSE]),
              subattributes_next |-> TRUE]
        ELSE [attribute |-> SetFields(attribute,
                               [value |-> cleaned_val, normalized_value |-> cleaned_val,
                                uncleaned_value |-> unclean_val, cleaned |-> TRUE,
                                cleaning_error |-> "False", last_cleaned |-> t]),
              subattributes_next |-> FALSE]


\* cleanRecordAttribute up to its loop over the subattributes: the attribute
\* it leaves and whether it goes on to that loop; raising is the set of
\* schema keys whose cleaning function raises on the value at hand
CleanValue(processor_attributes, attribute, attribute_key, t, raising) ==
    LET attribute_schema == SchemaGet(processor_attributes, attribute_key)
        cleaning_function_name == attribute_schema.cleaning_function
        unclean_val == attribute.value
        cleaned_val == CleanedValue(cleaning_function_name, unclean_val)
    IN  IF attribute_schema = NoSchema
        THEN [attribute |-> attribute, subattributes_next |-> FALSE]
        ELSE IF cleaning_function_name = "" \/ cleaning_function_name = None
        THEN [attribute |-> SetFields(attribute, [cleaned |-> FALSE]),
              subattributes_next |-> FALSE]
        ELSE IF cleaning_function_name \notin CLEANING_FUNCTIONS
        THEN [attribute |-> attribute, subattributes_next |-> TRUE]
        ELSE IF attribute_key \in raising
        THEN [attribute |-> SetFields(attribute,
                               [cleaning_error |-> "error", cleaned |-> FALSE]),
              subattributes_next |-> TRUE]
        ELSE [attribute |-> SetFields(attribute,
                               [value |-> cleaned_val, normalized_value |-> cleaned_val,
                                uncleaned_value |-> unclean_val, cleaned |-> TRUE,
                                cleaning_error |-> "False", last_cleaned |-> t]),
              subattributes_next |-> FALSE]

\* util.cleanRecordAttribute(processor_attributes, attribute, subattributeKey)
cleanRecordAttribute(processor_attributes, attribute, attribute_key, t, raising) ==
    LET own == CleanValue(processor_attributes, attribute, attribute_key, t, raising)
        subattributes == Get(own.attribute, "subattributes", <<>>)
    IN  IF own.subattributes_next /\ subattributes # <<>>
        THEN SetFields(own.attribute,
                 [subattributes |-> [j \in 1..Len(subattributes) |->
                     CleanValue(processor_attributes, subattributes[j],
                                attribute_key \o "::" \o subattributes[j].key,
                                t, raising).attribute]])
        ELSE own.attribute

\* DataManager.cleanAttribute(attribute, record_id=record_id)
cleanAttribute(attribute, t, raising) ==
    LET processor_attributes == convert_processor_attributes_to_dict(ProcessorAttributes)
    IN  IF Get(attribute, "isSubattribute", FALSE)
        THEN cleanRecordAttribute(processor_attributes, attribute,
                 Get(attribute, "topLevelAttribute", "") \o "::" \o attribute.key,
                 t, raising)
        ELSE cleanRecordAttribute(processor_attributes, attribute, attribute.key,
                 t, raising)

\* field_to_clean: None, or the position of one attribute or subattribute of
\* new_data["attributesList"] (positions count from 1 here)
NoField == [topLevelIndex |-> 0, isSubattribute |-> FALSE, subIndex |-> 0]

\* new_data after `if field_to_clean:`, the attribute cleaned in place
CleanField(new_data, field_to_clean, t, raising) ==
    IF field_to_clean = NoField
    THEN new_data
    ELSE LET topLevelIndex == field_to_clean.topLevelIndex
             subIndex == field_to_clean.subIndex
             attribute == new_data.attributesList[topLevelIndex]
         IN  IF field_to_clean.isSubattribute
             THEN [new_data EXCEPT !.attributesList[topLevelIndex].subattributes[subIndex] =
                      cleanAttribute(attribute.subattributes[subIndex], t, raising)]
             ELSE [new_data EXCEPT !.attributesList[topLevelIndex] =
                      cleanAttribute(attribute, t, raising)]

\* data_update["verification_status"] = None
IncompleteRuleKeepsVerification(data_update) == data_update

IncompleteRule(data_update) ==
    SetFields(data_update, [verification_status |-> None])

\* the data_update that updateRecord builds from update_type and new_data,
\* new_data being what the cleaning of field_to_clean left
DataUpdateOfCleaned(update_type, new_data) ==
    LET review_status == Get(new_data, "review_status", None)
        field == [k \in {update_type} |-> Get(new_data, update_type, None)]
    IN  IF update_type = "record" THEN new_data
        ELSE IF update_type = "attributesList" /\ review_status = "unreviewed"
        THEN SetFields(field, [review_status |-> "incomplete"])
        ELSE IF update_type = "verification_status" /\ review_status # None
        THEN SetFields(field, [review_status |-> review_status])
        ELSE IF update_type = "review_status" /\ review_status = "unreviewed"
        THEN resetRecord(new_data)
        ELSE IF update_type = "review_status" /\ review_status = "incomplete"
        THEN IncompleteRule(field)
        ELSE IF update_type = "review_status" /\ review_status = "defective"
        THEN SetFields(field,
                 [defective_categories |-> Get(new_data, "defective_categories", <<>>),
                  defective_description |-> Get(new_data, "defective_description", None)])
        ELSE field

\* data_update = new_data whatever the update_type
DataUpdateWholeDocument(update_type, new_data, field_to_clean, t, raising) ==
    new_data

DataUpdate(update_type, new_data, field_to_clean, t, raising) ==
    IF update_type = "record"
    THEN new_data
    ELSE DataUpdateOfCleaned(update_type,
             CleanField(new_data, field_to_clean, t, raising))

\* previous_state[each] = record_doc.get(each, None) for each in data_update,
\* None when the record cannot be read
PreviousState(recs, record_id, data_update) ==
    IF recs[record_id] = NoDocument
    THEN NoDocument
    ELSE [k \in DOMAIN data_update |->
             IF k \in DOMAIN recs[record_id]
             THEN [present |-> TRUE, value |-> recs[record_id][k]]
             ELSE [present |-> FALSE, value |-> None]]

\* recordHistory("updateRecord", user, record_id=, query=, previous_state=);
\* the entry's timestamp is left out
recordHistory(hist, action, user, record_id, query, previous_state) ==
    Append(hist, [action |-> action, user |-> user, record_id |-> record_id,
                  query |-> query, previous_state |-> previous_state])

\* what surrounds a call of updateRecord: the schema keys whose cleaning
\* function raises, and the records or history operation that raises, if any
RecordStoreOps == {"records.find", "history.insert_one", "records.update_one"}

NoFault == [raising |-> {}, raises |-> None]

\* the operations of updateRecord that no try block surrounds: an exception
\* they raise leaves updateRecord
PropagatesEveryFailure(raises) == raises # None

Propagates(raises) == raises = "records.update_one"

\* the try block around the read of the record's previous state
PreviousStateOrNone(recs, record_id, data_update, env) ==
    IF env.raises = "records.find"
    THEN NoDocument
    ELSE PreviousState(recs, record_id, data_update)

\* recordHistory with its try block around insert_one
recordHistoryOrLog(hist, action, user, record_id, query, previous_state, env) ==
    IF env.raises = "history.insert_one"
    THEN hist
    ELSE recordHistory(hist, action, user, record_id, query, previous_state)

\* updateRecord(record_id, new_data, update_type, field_to_clean, user_info,
\* forceUpdate) at time t: the collections it leaves and what it returns
\* ("False", the data_update dict, or "raised" when an exception leaves the
\* call); user is user_info["email"], None when user_info is None
UpdateWithoutLock(L, recs, hist, t, record_id, new_data, update_type, field_to_clean, user, forceUpdate, env) ==
    IF update_type = None \/ user = None
    THEN [locks |-> L, records |-> recs, history |-> hist,
          returned |-> "False", data_update |-> EmptyDoc]
    ELSE LET data_update == DataUpdate(update_type, new_data, field_to_clean, t,
                                       env.raising)
         IN  [locks |-> L,
              records |-> UpdateOneRecord(recs, record_id, data_update),
              history |-> recordHistory(hist, "updateRecord", user, record_id,
                              data_update, PreviousState(recs, record_id, data_update)),
              returned |-> "data_update", data_update |-> data_update]

updateRecord(L, recs, hist, t, record_id, new_data, update_type, field_to_clean, user, forceUpdate, env) ==
    LET unchanged == [locks |-> L, records |-> recs, history |-> hist,
                      returned |-> "False", data_update |-> EmptyDoc]
        lock == IF user # None
                THEN tryLockingRecord(L, record_id, user, t)
                ELSE [locks |-> L, attained_lock |-> FALSE]
    IN  IF user = None /\ ~forceUpdate
        THEN unchanged
        ELSE IF lock.attained_lock \/ forceUpdate
        THEN IF update_type = None
             THEN [unchanged EXCEPT !.locks = lock.locks]
             ELSE LET data_update == DataUpdate(update_type, new_data, field_to_clean,
                                                t, env.raising)
                      recorded ==
                          IF forceUpdate THEN hist
                          ELSE recordHistoryOrLog(hist, "updateRecord", user, record_id,
                                   data_update,
                                   PreviousStateOrNone(recs, record_id, data_update, env),
                                   env)
                  IN  IF Propagates(env.raises)
                      THEN [locks |-> lock.locks,
                            records |-> recs,
                            history |-> recorded,
                            returned |-> "raised",
                            data_update |-> data_update]
                      ELSE [locks |-> lock.locks,
                            records |-> UpdateOneRecord(recs, record_id, data_update),
                            history |-> recorded,
                            returned |-> "data_update",
                            data_update |-> data_update]
        ELSE [unchanged EXCEPT !.locks = lock.locks]

(* ---------------------------------------------------------------------- *)
(* Cleaning a collection                                                   *)
(* ---------------------------------------------------------------------- *)
\* the record group G3 and its processor: a1 has a cleaning function and a
\* subattribute with one, a2 has None and a subattribute with one, a3 has
\* the empty string, a4 has a cleaning function and no subattribute
CleanGroup == "G3"

CleaningProcessorAttributes ==
    << [name |-> "a1", page_order_sort |-> 1, cleaning_function |-> "clean_bool",
        subattributes |-> <<[name |-> "s", cleaning_function |-> "string_to_int"]>>],
       [name |-> "a2", page_order_sort |-> 2, cleaning_function |-> None,
        subattributes |-> <<[name |-> "s", cleaning_function |-> "string_to_int"]>>],
       [name |-> "a3", page_order_sort |-> 3, cleaning_function |-> "",
        subattributes |-> <<>>],
       [name |-> "a4", page_order_sort |-> 4, cleaning_function |-> "string_to_float",
        subattributes |-> <<>>] >>

\* getProcessorByRecordGroupID(rg_id): the attributes of the group's processor
getProcessorByRecordGroupID(rg_id) ==
    IF rg_id = CleanGroup THEN CleaningProcessorAttributes ELSE ProcessorAttributes

\* an extracted attribute with the subattributes of the given keys
ExtractedWith(key, subkeys) ==
    [ExtractedAttribute(key) EXCEPT
        !.subattributes = [j \in 1..Len(subkeys) |-> ExtractedSubattribute(key, subkeys[j])]]

\* a digitized record of G3: an attribute for each processor attribute, and
\* the attribute x the processor does not know
CleanableRecord(record_id) ==
    [_id |-> record_id,
     record_group_id |-> CleanGroup,
     filename |-> "f.png",
     status |-> "digitized",
     review_status |-> "unreviewed",
     attributesList |-> << ExtractedWith("a1", <<"s">>), ExtractedWith("a2", <<"s">>),
                           ExtractedWith("a3", <<>>), ExtractedWith("a4", <<>>),
                           ExtractedWith("x", <<>>) >>]

\* a record of G3 as process_document inserts it, before extraction
ProcessingRecord(record_id) ==
    [UploadedRecord(record_id) EXCEPT !.record_group_id = CleanGroup]

\* util.cleanRecords(processor_attributes, documents) on one document:
\* doc["attributesList"] raises KeyError on a document without that key
CleanRecordsRaises(doc) == "attributesList" \notin DOMAIN doc

cleanRecordsDocument(processor_attributes, doc, t, raising) ==
    [doc EXCEPT !.attributesList =
        [i \in 1..Len(doc.attributesList) |->
            cleanRecordAttribute(processor_attributes, doc.attributesList[i],
                                 doc.attributesList[i].key, t, raising)]]

\* the ids db.records.find(query) yields in cleanCollection
CleanScope(recs, location, _id) ==
    IF location = "record"
    THEN {r \in DOMAIN recs : r = _id /\ recs[r] # NoDocument}
    ELSE IF location = "record_group"
    THEN {r \in DOMAIN recs : recs[r] # NoDocument /\ recs[r].record_group_id = _id}
    ELSE {}

\* DataManager.cleanCollection(location, _id) at time t: the records
\* collection it leaves, and whether it reached and ran bulk_write; every
\* exception is caught and logged (an unknown record id, a document without
\* attributesList, an empty list of update operations)
cleanCollection(recs, location, _id, t, raising) ==
    LET scope == CleanScope(recs, location, _id)
        processor_attributes(r) ==
            convert_processor_attributes_to_dict(
                getProcessorByRecordGroupID(recs[r].record_group_id))
    IN  IF location \notin {"record", "record_group"} \/ scope = {}
           \/ \E r \in scope : CleanRecordsRaises(recs[r])
        THEN [records |-> recs, written |-> FALSE]
        ELSE [records |->
                 [r \in DOMAIN recs |->
                     IF r \in scope
                     THEN cleanRecordsDocument(processor_attributes(r), recs[r], t, raising)
                     ELSE recs[r]],
              written |-> TRUE]

(* ---------------------------------------------------------------------- *)
(* Navigation within a record group                                        *)
(* ---------------------------------------------------------------------- *)
\* the ids of the records of a record group that have a dateCreated
GroupRecords(recs, rg_id) ==
    {r \in DOMAIN recs : /\ recs[r] # NoDocument
                         /\ recs[r].record_group_id = rg_id
                         /\ "dateCreated" \in DOMAIN recs[r]}

\* the ids cursor.sort("dateCreated", ASCENDING / DESCENDING) may yield
\* first: the order of documents with equal dateCreated is not specified
FirstAscending(recs, ids) ==
    {r \in ids : \A q \in ids : recs[r].dateCreated <= recs[q].dateCreated}

FirstDescending(recs, ids) ==
    {r \in ids : \A q \in ids : recs[r].dateCreated >= recs[q].dateCreated}

\* db.records.count_documents({"dateCreated": {"$lte": dateCreated},
\* "record_group_id": rg_id})
RecordIndex(recs, dateCreated, rg_id) ==
    Cardinality({r \in GroupRecords(recs, rg_id) : recs[r].dateCreated <= dateCreated})

\* getNextRecordId(dateCreated, rg_id): the ids it may return
NextIncludesSelf(recs, dateCreated, rg_id) ==
    LET later == {r \in GroupRecords(recs, rg_id) : recs[r].dateCreated >= dateCreated}
    IN  IF later # {}
        THEN FirstAscending(recs, later)
        ELSE FirstAscending(recs, GroupRecords(recs, rg_id))

getNextRecordId(recs, dateCreated, rg_id) ==
    LET later == {r \in GroupRecords(recs, rg_id) : recs[r].dateCreated > dateCreated}
    IN  IF later # {}
        THEN FirstAscending(recs, later)
        ELSE FirstAscending(recs, GroupRecords(recs, rg_id))

\* getPreviousRecordId(dateCreated, rg_id): the ids it may return
getPreviousRecordId(recs, dateCreated, rg_id) ==
    LET earlier == {r \in GroupRecords(recs, rg_id) : recs[r].dateCreated < dateCreated}
    IN  IF earlier # {}
        THEN FirstDescending(recs, earlier)
        ELSE FirstDescending(recs, GroupRecords(recs, rg_id))

(* ---------------------------------------------------------------------- *)
(* Deletion                                                                *)
(* ---------------------------------------------------------------------- *)
\* the project P1 with the record groups G1 and G2, nothing deleted yet
InitialDb ==
    [record_groups |-> {"G1", "G2"},
     projects |-> {[_id |-> "P1", record_groups |-> {"G1", "G2"}]},
     deleted_record_groups |-> {},
     deleted_projects |-> {},
     deleted_records |-> {}]

\* the ids of the records db.records.find({field: {"$in": values}}) yields
FindRecords(recs, field, values) ==
    {r \in DOMAIN recs : /\ recs[r] # NoDocument
                         /\ field \in DOMAIN recs[r]
                         /\ recs[r][field] \in values}

\* db.records.delete_one / delete_many on the records of the given ids
DeleteFromRecords(recs, ids) ==
    [r \in DOMAIN recs |-> IF r \in ids THEN NoDocument ELSE recs[r]]

\* deleteRecord(record_id, user_info)
deleteRecord(recs, D, hist, record_id, user) ==
    [records |-> DeleteFromRecords(recs, {record_id}),
     db |-> D,
     history |-> recordHistory(hist, "deleteRecord", user, record_id,
                               NoDocument, NoDocument)]

\* deleteRecords(query, deletedBy) with query {field: values}; when
\* deleted_records.insert_one raises (here on the first document) the
\* exception is logged and delete_many runs all the same
deleteRecords(recs, D, field, values, deletedBy, insert_raises) ==
    LET matched == FindRecords(recs, field, values)
        moved == IF insert_raises THEN {}
                 ELSE {SetFields(recs[r], [deleted_by |-> deletedBy]) : r \in matched}
    IN  [records |-> DeleteFromRecords(recs, matched),
         db |-> [D EXCEPT !.deleted_records = @ \cup moved]]

\* deleteRecordGroups(record_groups, deletedBy)
deleteRecordGroups(D, record_groups, deletedBy) ==
    [D EXCEPT !.deleted_record_groups = @ \cup (D.record_groups \cap record_groups),
              !.record_groups = @ \ record_groups]

\* removeRecordGroupFromProject(rg_id)
removeRecordGroupFromProject(D, rg_id) ==
    [D EXCEPT !.projects = {[p EXCEPT !.record_groups = @ \ {rg_id}] : p \in @}]

\* deleteRecordGroup(rg_id, background_tasks, user_info), with the background
\* task deleteRecords(query={"record_group": rg_id}); raised when
\* record_group_cursor.next() finds no record group
deleteRecordGroup(recs, D, hist, rg_id, user, insert_raises) ==
    IF rg_id \notin D.record_groups
    THEN [records |-> recs, db |-> D, history |-> hist, raised |-> TRUE]
    ELSE LET moved == [D EXCEPT !.deleted_record_groups = @ \cup {rg_id},
                                !.record_groups = @ \ {rg_id}]
             res == deleteRecords(recs, moved, "record_group", {rg_id}, user,
                                  insert_raises)
         IN  [records |-> res.records,
              db |-> removeRecordGroupFromProject(res.db, rg_id),
              history |-> recordHistory(hist, "deleteRecordGroup", user, None,
                                        NoDocument, NoDocument),
              raised |-> FALSE]

\* deleteProject(project_id, background_tasks, user_info), with the
\* background task deleteRecords(query={"record_group_id": {"$in":
\* record_groups}}); raised when project_cursor.next() finds no project
deleteProject(recs, D, hist, project_id, user, insert_raises) ==
    IF \A p \in D.projects : p._id # project_id
    THEN [records |-> recs, db |-> D, history |-> hist, raised |-> TRUE]
    ELSE LET project_document == CHOOSE p \in D.projects : p._id = project_id
             record_groups == project_document.record_groups
             moved == [D EXCEPT !.deleted_projects = @ \cup {project_id},
                                !.projects = @ \ {project_document}]
             res == deleteRecords(recs, deleteRecordGroups(moved, record_groups, user),
                                  "record_group_id", record_groups, user, insert_raises)
         IN  [records |-> res.records,
              db |-> res.db,
              history |-> recordHistory(hist, "deleteProject", user, None,
                                        NoDocument, NoDocument),
              raised |-> FALSE]

(* ---------------------------------------------------------------------- *)
(* Initial state                                                           *)
(* ---------------------------------------------------------------------- *)
NoCall == [record_id |-> None, user |-> None, branch |-> None, attained_lock |-> FALSE]

NoScenario == [stage |-> 0, t |-> 0]

Init ==
    /\ locked_records = {}
    /\ records = [r \in Records \cup {Missing, Uploaded} |->
                     IF r = Missing THEN NoDocument
                     ELSE IF r = Uploaded THEN UploadedRecord(r)
                     ELSE NewRecord(r)]
    /\ history = <<>>
    /\ now = 0
    /\ last = [op |-> "init"]
    /\ copy = [u \in Users |-> NoDocument]
    /\ scenario = NoScenario
    /\ pc = [p \in Procs |-> "idle"]
    /\ call = [p \in Procs |-> NoCall]
    /\ active = Users
    /\ db = InitialDb

\* the wall clock advances
Tick(t) ==
    /\ t > now
    /\ now' = t
    /\ UNCHANGED <<locked_records, records, history, last, copy, scenario, pc, call, active, db>>

(* ---------------------------------------------------------------------- *)
(* Spec: the lock manager, every call atomic                               *)
(* ---------------------------------------------------------------------- *)
TryLock(user, record_id) ==
    LET res == tryLockingRecord(locked_records, record_id, user, now)
    IN  /\ locked_records' = res.locks
        /\ last' = [op |-> "tryLock", user |-> user, record_id |-> record_id,
                    attained_lock |-> res.attained_lock, before |-> locked_records]
        /\ UNCHANGED <<records, history, now, copy, scenario, pc, call, active, db>>

Release(record_id, user) ==
    /\ locked_records' = releaseRecord(locked_records, record_id, user)
    /\ last' = [op |-> "release", user |-> user, record_id |-> record_id,
                before |-> locked_records]
    /\ UNCHANGED <<records, history, now, copy, scenario, pc, call, active, db>>

Next ==
    \/ \E t \in Instants(MaxTime) : Tick(t)
    \/ \E u \in Users, r \in Records : TryLock(u, r)
    \/ \E u \in Users \cup {None}, r \in Records \cup {None} : Release(r, u)

Spec == Init /\ [][Next]_vars

(* ---------------------------------------------------------------------- *)
(* SpecLive: abandoned sessions; nothing but tryLockingRecord is called    *)
(* ---------------------------------------------------------------------- *)
\* a session is abandoned (crash, closed browser): the user issues no more calls
Abandon(user) ==
    /\ user \in active
    /\ active' = active \ {user}
    /\ UNCHANGED <<locked_records, records, history, now, last, copy, scenario, pc, call, db>>

\* a user with a live session calls tryLockingRecord
LiveTryLock(user, record_id) ==
    /\ user \in active
    /\ TryLock(user, record_id)

AdvanceClock == \E t \in Instants(MaxTime) : Tick(t)

NextLive ==
    \/ AdvanceClock
    \/ \E u \in Users, r \in Records : LiveTryLock(u, r)
    \/ \E u \in Users : Abandon(u)

\* time passes, and a user with a live session keeps retrying
SpecLive ==
    /\ Init
    /\ [][NextLive]_vars
    /\ WF_vars(AdvanceClock)
    /\ \A u \in Users, r \in Records : WF_vars(LiveTryLock(u, r))

(* ---------------------------------------------------------------------- *)
(* SpecFault: lock-store operations raise                                  *)
(* ---------------------------------------------------------------------- *)
\* a call of tryLockingRecord during which a lock-store operation raises
TryLockRaising(user, record_id, raises) ==
    LET res == tryLockingRecordRaising(locked_records, record_id, user, now, raises)
    IN  /\ res.raised
        /\ locked_records' = res.locks
        /\ last' = [op |-> "tryLockRaised", user |-> user, record_id |-> record_id,
                    attained_lock |-> res.attained_lock, before |-> locked_records,
                    raises |-> raises]
        /\ UNCHANGED <<records, history, now, copy, scenario, pc, call, active, db>>

NextFault ==
    \/ \E t \in Instants(MaxTime) : Tick(t)
    \/ \E u \in Users, r \in Records : TryLock(u, r)
    \/ \E u \in Users, r \in Records, op \in StoreOps : TryLockRaising(u, r, op)

SpecFault == Init /\ [][NextFault]_vars

(* ---------------------------------------------------------------------- *)
(* SpecAccess: fetchRecordData and updateRecord, every call atomic         *)
(* ---------------------------------------------------------------------- *)
ScenarioUnlocked(record_id) ==
    \A d \in FindLocks(locked_records, record_id) : d.timestamp + lock_duration < now

\* the scenario: A fetches the unreviewed, unlocked R1; B fetches R1 within
\* lock_duration; lock_duration + 1 or more after A's fetch B updates R1;
\* A fetches R1 again before the lock B got has expired
ScenarioAfterFetch(user, record_id) ==
    IF /\ scenario.stage = 3 /\ user = "A" /\ record_id = "R1"
       /\ now - scenario.t <= lock_duration
    THEN [stage |-> 4, t |-> now]
    ELSE IF /\ scenario.stage = 1 /\ user = "B" /\ record_id = "R1"
            /\ now - scenario.t <= lock_duration
    THEN [stage |-> 2, t |-> scenario.t]
    ELSE IF /\ user = "A" /\ record_id = "R1"
            /\ records["R1"] # NoDocument
            /\ records["R1"].review_status = "unreviewed"
            /\ ScenarioUnlocked("R1")
    THEN [stage |-> 1, t |-> now]
    ELSE NoScenario

ScenarioAfterUpdate(user, record_id, update_type) ==
    IF /\ scenario.stage = 2 /\ user = "B" /\ record_id = "R1"
       /\ update_type # None
       /\ now - scenario.t >= lock_duration + 1
    THEN [stage |-> 3, t |-> now]
    ELSE NoScenario

Fetch(user, record_id) ==
    LET res == fetchRecordData(locked_records, records, now, record_id, user)
    IN  /\ locked_records' = res.locks
        /\ last' = [op |-> "fetch", user |-> user, record_id |-> record_id,
                    found |-> res.document # NoDocument, is_locked |-> res.is_locked]
        /\ copy' = IF res.document = NoDocument THEN copy
                   ELSE [copy EXCEPT ![user] = res.document]
        /\ scenario' = ScenarioAfterFetch(user, record_id)
        /\ UNCHANGED <<records, history, now, pc, call, active, db>>

\* what a client sends as new_data: the document it fetched, with its change
ReviewStatuses == {"unreviewed", "reviewed"}
EditValue(user) == IF user = "A" THEN "vA" ELSE "vB"
EditIndex(user) == IF user = "A" THEN 1 ELSE 2

ClientDocument(user) ==
    [copy[user] EXCEPT !.attributesList = copy[user].attributesList[1]]

ClientEdit(user, i) ==
    [ClientDocument(user) EXCEPT !.attributesList[i].value = EditValue(user),
                                 !.attributesList[i].edited = TRUE]

\* a request: update_type, new_data, field_to_clean, and the schema keys
\* whose cleaning function raises during the call
Request(update_type, new_data, field_to_clean, raising) ==
    [update_type |-> update_type, new_data |-> new_data,
     field_to_clean |-> field_to_clean, raising |-> raising]

ClientRequests(user) ==
    {Request(None, ClientDocument(user), NoField, {})}
    \cup {Request("attributesList", ClientEdit(user, EditIndex(user)), NoField, {})}
    \cup {Request("review_status",
                  [ClientDocument(user) EXCEPT !.review_status = s], NoField, {}) :
             s \in ReviewStatuses}


\* the requests of a client: none before it has fetched a record
UpdateRequests(user) ==
    IF copy[user] = NoDocument THEN {} ELSE ClientRequests(user)

\* a client calls updateRecord on the record it fetched
Update(user, request) ==
    LET record_id == copy[user]._id
        res == updateRecord(locked_records, records, history, now, record_id,
                            request.new_data, request.update_type,
                            request.field_to_clean, user, FALSE,
                            [NoFault EXCEPT !.raising = request.raising])
    IN  /\ Len(res.history) <= MaxHist
        /\ locked_records' = res.locks
        /\ records' = res.records
        /\ history' = res.history
        /\ last' = [op |-> "update", user |-> user, record_id |-> record_id,
                    returned |-> res.returned]
        /\ scenario' = ScenarioAfterUpdate(user, record_id, request.update_type)
        /\ UNCHANGED <<now, copy, pc, call, active, db>>

ClientUpdate(user) ==
    \E request \in UpdateRequests(user) :
        /\ Update(user, request)
        /\ Len(history') <= MaxAccessHist

\* updateRecord called with user_info=None and no forceUpdate
UpdateAnonymous(record_id) ==
    LET res == updateRecord(locked_records, records, history, now, record_id,
                            [review_status |-> "reviewed"], "record", NoField, None,
                            FALSE, NoFault)
    IN  /\ locked_records' = res.locks
        /\ records' = res.records
        /\ history' = res.history
        /\ last' = [op |-> "update", user |-> None, record_id |-> record_id,
                    returned |-> res.returned]
        /\ scenario' = NoScenario
        /\ UNCHANGED <<now, copy, pc, call, active, db>>

NextAccess ==
    \/ \E t \in Instants(MaxAccessTime) : Tick(t)
    \/ \E u \in Users, r \in Records : Fetch(u, r)
    \/ \E u \in Users : ClientUpdate(u)
    \/ \E r \in Records : UpdateAnonymous(r)

SpecAccess == Init /\ [][NextAccess]_vars

(* ---------------------------------------------------------------------- *)
(* SpecStale: SpecAccess with room in the history for one update by each   *)
(* client, so that a client updates from a copy another client outdated    *)
(* ---------------------------------------------------------------------- *)
StaleUpdate(user) == \E request \in UpdateRequests(user) : Update(user, request)

NextStale ==
    \/ \E t \in Instants(MaxAccessTime) : Tick(t)
    \/ \E u \in Users, r \in Records : Fetch(u, r)
    \/ \E u \in Users : StaleUpdate(u)
    \/ \E r \in Records : UpdateAnonymous(r)

SpecStale == Init /\ [][NextStale]_vars

(* ---------------------------------------------------------------------- *)
(* SpecReview: the review state machine, cleaning and the audit trail      *)
(* ---------------------------------------------------------------------- *)
ReviewStatusValues == {"unreviewed", "incomplete", "reviewed", "defective"}

\* a client edits the subattribute at position j of the attribute at position i
ClientSubEdit(user, i, j) ==
    [ClientDocument(user) EXCEPT
        !.attributesList[i].subattributes[j].value = EditValue(user),
        !.attributesList[i].subattributes[j].edited = TRUE]

\* the cleaning function of the schema key returns, or raises
CleaningOutcomes(key) == {{}, {key}}

AttributeRequests(user) ==
    LET i == EditIndex(user)
        attribute == ClientDocument(user).attributesList[i]
    IN  {Request("attributesList", ClientEdit(user, i), NoField, {})}
        \cup {Request("attributesList", ClientEdit(user, i),
                      [topLevelIndex |-> i, isSubattribute |-> FALSE, subIndex |-> 0],
                      raising) : raising \in CleaningOutcomes(attribute.key)}
        \cup UNION {{Request("attributesList", ClientSubEdit(user, i, j),
                         [topLevelIndex |-> i, isSubattribute |-> TRUE, subIndex |-> j],
                          {})} :
                     j \in 1..Len(attribute.subattributes)}

StatusRequests(user) ==
    {Request("review_status",
             SetFields(ClientDocument(user),
                 IF s = "defective"
                 THEN [review_status |-> s, defective_categories |-> <<"illegible">>,
                       defective_description |-> "torn"]
                 ELSE [review_status |-> s]),
             NoField, {}) : s \in ReviewStatusValues}
    \cup {Request("verification_status",
                  SetFields(ClientDocument(user), [verification_status |-> "verified"]),
                  NoField, {})}

ReviewRequests(user) ==
    IF copy[user] = NoDocument
    THEN {}
    ELSE AttributeRequests(user) \cup StatusRequests(user)

ReviewUpdate(user) == \E request \in ReviewRequests(user) : Update(user, request)

\* A reviews R1 and saves; B, whose team owns R1 but not R2, only opens records
Reviewers == {"A"}

ReviewedRecords(user) ==
    IF user \in Reviewers THEN {"R1", Missing} ELSE Records \cup {Missing}

\* process_image: the extraction of an uploaded record has succeeded
ProcessImage(record_id) ==
    LET res == updateRecord(locked_records, records, history, now, record_id,
                            ExtractionResult(record_id), "record", NoField, None,
                            TRUE, NoFault)
    IN  /\ records[record_id] # NoDocument
        /\ records[record_id].status = "processing"
        /\ locked_records' = res.locks
        /\ records' = res.records
        /\ history' = res.history
        /\ last' = [op |-> "process_image", user |-> None, record_id |-> record_id,
                    returned |-> res.returned]
        /\ scenario' = NoScenario
        /\ UNCHANGED <<now, copy, pc, call, active, db>>

NextReview ==
    \/ \E u \in Users : \E r \in ReviewedRecords(u) : Fetch(u, r)
    \/ \E u \in Reviewers : ReviewUpdate(u)
    \/ ProcessImage(Uploaded)

SpecReview == Init /\ [][NextReview]_vars

(* ---------------------------------------------------------------------- *)
(* SpecAudit: updateRecord while the records or history store raises       *)
(* ---------------------------------------------------------------------- *)
AuditRequests(user) ==
    IF copy[user] = NoDocument
    THEN {}
    ELSE {Request("attributesList", ClientEdit(user, EditIndex(user)), NoField, {}),
          Request("review_status",
                  [ClientDocument(user) EXCEPT !.review_status = "reviewed"],
                  NoField, {})}

\* a client calls updateRecord on the record it fetched, and the store
\* operation named raises raises when updateRecord reaches it
UpdateRaising(user, request, raises) ==
    LET record_id == copy[user]._id
        res == updateRecord(locked_records, records, history, now, record_id,
                            request.new_data, request.update_type,
                            request.field_to_clean, user, FALSE,
                            [raising |-> request.raising, raises |-> raises])
    IN  /\ Len(res.history) <= MaxHist
        /\ locked_records' = res.locks
        /\ records' = res.records
        /\ history' = res.history
        /\ last' = [op |-> "update", user |-> user, record_id |-> record_id,
                    returned |-> res.returned, raises |-> raises]
        /\ scenario' = NoScenario
        /\ UNCHANGED <<now, copy, pc, call, active, db>>

AuditUpdate(user) ==
    \E request \in AuditRequests(user) : Update(user, request)

AuditUpdateRaising(user) ==
    \E request \in AuditRequests(user) :
        \E raises \in RecordStoreOps : UpdateRaising(user, request, raises)

NextAudit ==
    \/ \E u \in Users : Fetch(u, "R1")
    \/ \E u \in Reviewers : AuditUpdate(u)
    \/ \E u \in Reviewers : AuditUpdateRaising(u)

SpecAudit == Init /\ [][NextAudit]_vars

(* ---------------------------------------------------------------------- *)
(* SpecClean: cleanCollection over the records of the record group G3      *)
(* ---------------------------------------------------------------------- *)
\* the clock is read at the instants up to MaxCleanTime
MaxCleanTime == 120

\* at most MaxCleanings calls of cleanCollection, counted in scenario.stage
MaxCleanings == 2

CleanRecords == {"R4", "R5"}

\* the schema keys whose cleaning function raises during a call: none, that
\* of a1, that of a1 and of its subattribute, that of a4
RaisingSets == {{}, {"a1"}, {"a1", "a1::s"}, {"a4"}}

\* R4 is digitized; R5 is digitized, or still as process_document left it
InitClean ==
    /\ locked_records = {}
    /\ \E shape \in {"digitized", "processing"} :
          records = [r \in CleanRecords \cup {Missing} |->
                        IF r = Missing THEN NoDocument
                        ELSE IF r = "R5" /\ shape = "processing" THEN ProcessingRecord(r)
                        ELSE CleanableRecord(r)]
    /\ history = <<>>
    /\ now = 0
    /\ last = [op |-> "init"]
    /\ copy = [u \in Users |-> NoDocument]
    /\ scenario = NoScenario
    /\ pc = [p \in Procs |-> "idle"]
    /\ call = [p \in Procs |-> NoCall]
    /\ active = Users
    /\ db = InitialDb

CleanCollection(location, _id, raising) ==
    LET res == cleanCollection(records, location, _id, now, raising)
    IN  /\ scenario.stage < MaxCleanings
        /\ records' = res.records
        /\ last' = [op |-> "cleanCollection", location |-> location, _id |-> _id,
                    raising |-> raising, written |-> res.written]
        /\ scenario' = [scenario EXCEPT !.stage = @ + 1]
        /\ UNCHANGED <<locked_records, history, now, copy, pc, call, active, db>>

NextClean ==
    \/ \E t \in Instants(MaxCleanTime) : Tick(t)
    \/ \E raising \in RaisingSets : CleanCollection("record", "R4", raising)
    \/ CleanCollection("record", Missing, {})
    \/ \E raising \in RaisingSets : CleanCollection("record_group", CleanGroup, raising)
    \/ CleanCollection("project", CleanGroup, {})

SpecClean == InitClean /\ [][NextClean]_vars

(* ---------------------------------------------------------------------- *)
(* SpecSort: sortRecordAttributes on attribute lists and processors        *)
(* ---------------------------------------------------------------------- *)
\* attribute lists of at most MaxAttrs attributes
MaxAttrs == 2

\* the keys of the attributes of a record: two schema names and another
AttributeKeySet == {"k1", "k2", "x"}

SchemaEntry(name, page_order_sort) ==
    [name |-> name, page_order_sort |-> page_order_sort,
     cleaning_function |-> None, subattributes |-> <<>>]

SchemaEntries == {SchemaEntry("k1", 1), SchemaEntry("k2", 2), SchemaEntry("k3", 3)}

\* the processors: None, one without attributes, and one for each list of
\* distinct schema entries, in any order
SortProcessors ==
    {NoProcessor, [NoProcessor EXCEPT !.found = TRUE]}
    \cup {Processor(pa) : pa \in {q \in UNION {[1..n -> SchemaEntries] : n \in 0..3} :
                                    \A i, j \in 1..Len(q) : i # j => q[i] # q[j]}}

AttributeLists ==
    UNION {[1..n -> {ExtractedAttribute(k) : k \in AttributeKeySet}] : n \in 0..MaxAttrs}

\* call holds the arguments of the coming call of sortRecordAttributes
InitSort ==
    /\ locked_records = {}
    /\ records = [r \in {Missing} |-> NoDocument]
    /\ history = <<>>
    /\ now = 0
    /\ last = [op |-> "init"]
    /\ copy = [u \in Users |-> NoDocument]
    /\ scenario = NoScenario
    /\ pc = [p \in Procs |-> "idle"]
    /\ \E attributes \in AttributeLists, processor \in SortProcessors,
          keep_all_attributes \in BOOLEAN :
          call = [attributes |-> attributes, processor |-> processor,
                  keep_all_attributes |-> keep_all_attributes]
    /\ active = Users
    /\ db = InitialDb

SortAttributes ==
    LET res == sortRecordAttributesOf(call.attributes, call.processor,
                                      call.keep_all_attributes)
    IN  /\ last.op = "init"
        /\ last' = [op |-> "sortRecordAttributes", sorted_attributes |-> res[1],
                    requires_db_update |-> res[2]]
        /\ UNCHANGED <<locked_records, records, history, now, copy, scenario, pc, call,
                       active, db>>

NextSort == SortAttributes

SpecSort == InitSort /\ [][NextSort]_vars

(* ---------------------------------------------------------------------- *)
(* SpecDelete: deleteRecord, deleteRecordGroup and deleteProject           *)
(* ---------------------------------------------------------------------- *)
DeleteRecord(record_id, user) ==
    LET res == deleteRecord(records, db, history, record_id, user)
    IN  /\ Len(res.history) <= MaxHist
        /\ records' = res.records
        /\ db' = res.db
        /\ history' = res.history
        /\ last' = [op |-> "deleteRecord", user |-> user, _id |-> record_id,
                    raised |-> FALSE]
        /\ UNCHANGED <<locked_records, now, copy, scenario, pc, call, active>>

DeleteRecordGroup(rg_id, user, insert_raises) ==
    LET res == deleteRecordGroup(records, db, history, rg_id, user, insert_raises)
    IN  /\ Len(res.history) <= MaxHist
        /\ records' = res.records
        /\ db' = res.db
        /\ history' = res.history
        /\ last' = [op |-> "deleteRecordGroup", user |-> user, _id |-> rg_id,
                    raised |-> res.raised]
        /\ UNCHANGED <<locked_records, now, copy, scenario, pc, call, active>>

DeleteProject(project_id, user, insert_raises) ==
    LET res == deleteProject(records, db, history, project_id, user, insert_raises)
    IN  /\ Len(res.history) <= MaxHist
        /\ records' = res.records
        /\ db' = res.db
        /\ history' = res.history
        /\ last' = [op |-> "deleteProject", user |-> user, _id |-> project_id,
                    raised |-> res.raised]
        /\ UNCHANGED <<locked_records, now, copy, scenario, pc, call, active>>

NextDelete ==
    \/ \E r \in Records \cup {Uploaded, Missing}, u \in Users : DeleteRecord(r, u)
    \/ \E g \in {"G1", "G2"}, u \in Users, insert_raises \in BOOLEAN :
          DeleteRecordGroup(g, u, insert_raises)
    \/ \E u \in Users, insert_raises \in BOOLEAN : DeleteProject("P1", u, insert_raises)

SpecDelete == Init /\ [][NextDelete]_vars

(* ---------------------------------------------------------------------- *)
(* SpecNav: recordIndex, previous_id and next_id of a fetched record       *)
(* ---------------------------------------------------------------------- *)
\* createRecord stamps dateCreated = time.time(): a value in 1..MaxDate
MaxDate == 3

NavRecords == {"R1", "R2", "R3"}
OtherGroupRecord == "R4"

DatedRecord(record_id, rg_id, dateCreated) ==
    [_id |-> record_id, record_group_id |-> rg_id, dateCreated |-> dateCreated]

\* G1 holds R1 and, each or not, R2 and R3; G2 holds R4; any dateCreated,
\* equal ones included
InitNav ==
    /\ locked_records = {}
    /\ \E date \in [NavRecords \cup {OtherGroupRecord} -> 1..MaxDate],
          present \in SUBSET {"R2", "R3"} :
          records = [r \in NavRecords \cup {OtherGroupRecord} |->
                        IF r = OtherGroupRecord THEN DatedRecord(r, "G2", date[r])
                        ELSE IF r = "R1" \/ r \in present
                        THEN DatedRecord(r, "G1", date[r])
                        ELSE NoDocument]
    /\ history = <<>>
    /\ now = 0
    /\ last = [op |-> "init"]
    /\ copy = [u \in Users |-> NoDocument]
    /\ scenario = NoScenario
    /\ pc = [p \in Procs |-> "idle"]
    /\ call = [p \in Procs |-> NoCall]
    /\ active = Users
    /\ db = InitialDb

\* fetchRecordData, from "get record index" to "get previous and next IDs"
Navigate(record_id) ==
    /\ records[record_id] # NoDocument
    /\ LET document == records[record_id]
           dateCreated == Get(document, "dateCreated", 0)
           rg_id == document.record_group_id
       IN  \E previous_id \in getPreviousRecordId(records, dateCreated, rg_id),
              next_id \in getNextRecordId(records, dateCreated, rg_id) :
              last' = [op |-> "navigate", record_id |-> record_id,
                       recordIndex |-> RecordIndex(records, dateCreated, rg_id),
                       previous_id |-> previous_id, next_id |-> next_id]
    /\ UNCHANGED <<locked_records, records, history, now, copy, scenario, pc, call,
                   active, db>>

NextNav == \E r \in NavRecords \cup {OtherGroupRecord} : Navigate(r)

SpecNav == InitNav /\ [][NextNav]_vars

(* ---------------------------------------------------------------------- *)
(* SpecConc: concurrent request handlers in tryLockingRecord               *)
(* ---------------------------------------------------------------------- *)
\* a handler enters tryLockingRecord(record_id, user)
Call(p, user, record_id) ==
    /\ pc[p] = "idle"
    /\ pc' = [pc EXCEPT ![p] = "find"]
    /\ call' = [call EXCEPT ![p] = [NoCall EXCEPT !.record_id = record_id, !.user = user]]
    /\ UNCHANGED <<locked_records, records, history, now, last, copy, scenario, active, db>>

\* locked_records.find(...), current_time = time.time(), and the branch taken
Find(p) ==
    /\ pc[p] = "find"
    /\ LET branch == LockBranch(FindLocks(locked_records, call[p].record_id),
                                call[p].user, now)
       IN  /\ call' = [call EXCEPT ![p].branch = branch]
           /\ pc' = [pc EXCEPT ![p] =
                        CASE branch = "reenter" -> "upsert"
                          [] branch = "denied" -> "return"
                          [] OTHER -> "release"]
    /\ UNCHANGED <<locked_records, records, history, now, last, copy, scenario, active, db>>

\* lockRecord: self.releaseRecord(user=user)
ReleasePrevious(p) ==
    /\ pc[p] = "release"
    /\ locked_records' = releaseRecord(locked_records, None, call[p].user)
    /\ pc' = [pc EXCEPT ![p] = "upsert"]
    /\ UNCHANGED <<records, history, now, last, copy, scenario, call, active, db>>

\* lockRecord: locked_records.update_one(query, {"$set": data}, upsert=True)
Upsert(p) ==
    /\ pc[p] = "upsert"
    /\ locked_records' = UpsertLock(locked_records, call[p].record_id,
                             LockDoc(call[p].record_id, call[p].user, now))
    /\ call' = [call EXCEPT ![p].attained_lock = TRUE]
    /\ pc' = [pc EXCEPT ![p] = "return"]
    /\ UNCHANGED <<records, history, now, last, copy, scenario, active, db>>

\* return attained_lock; the handler's response stays until its next request
Return(p) ==
    /\ pc[p] = "return"
    /\ pc' = [pc EXCEPT ![p] = "idle"]
    /\ last' = [op |-> "tryLock", user |-> call[p].user,
                record_id |-> call[p].record_id,
                attained_lock |-> call[p].attained_lock]
    /\ UNCHANGED <<locked_records, records, history, now, copy, scenario, call, active, db>>

NextConc ==
    \/ \E t \in Instants(MaxTime) : Tick(t)
    \/ \E p \in Procs, u \in Users, r \in Records : Call(p, u, r)
    \/ \E p \in Procs : Find(p)
    \/ \E p \in Procs : ReleasePrevious(p)
    \/ \E p \in Procs : Upsert(p)
    \/ \E p \in Procs : Return(p)

SpecConc == Init /\ [][NextConc]_vars

(* ---------------------------------------------------------------------- *)
(* Properties of the lock manager (Spec)                                   *)
(* ---------------------------------------------------------------------- *)
Holders(L, record_id) == {d.user : d \in FindLocks(L, record_id)}
LocksOf(L, user) == {d \in L : d.user = user}

\* C1 - Lock mutual exclusion: when user u calls tryLock on a record whose
\* lock is held by another user and is younger than lock_duration, the call
\* returns false and the lock store (holder and timestamp) is unchanged.
C1_MutualExclusion ==
    [][\A u \in Users, r \in Records :
         (/\ TryLock(u, r)
          /\ \E d \in FindLocks(locked_records, r) :
                d.user # u /\ now - d.timestamp < lock_duration)
         => (last'.attained_lock = FALSE /\ locked_records' = locked_records)]_vars

C1_Witness ==
    /\ last.op = "tryLock"
    /\ ~last.attained_lock
    /\ \E d \in FindLocks(last.before, last.record_id) :
          /\ d.user # last.user
          /\ now - d.timestamp < lock_duration
          /\ now - d.timestamp > 0

\* C2 as stated - Lock expiry takeover with the boundary included: a tryLock
\* by another user at now - timestamp >= lock_duration returns true and
\* leaves the caller's fresh lock as the only lock on the record.
C2_TakeoverAtBoundary ==
    [][\A u \in Users, r \in Records :
         (/\ TryLock(u, r)
          /\ \E d \in FindLocks(locked_records, r) :
                d.user # u /\ now - d.timestamp >= lock_duration)
         => (/\ last'.attained_lock
             /\ FindLocks(locked_records', r) = {LockDoc(r, u, now)})]_vars

\* C2 as amended - Lock expiry takeover: a tryLock by another user at
\* now - timestamp > lock_duration (strictly) returns true and leaves the
\* caller's fresh lock as the only lock on the record; at
\* now - timestamp = lock_duration the call is still denied.
C2_TakeoverAfterExpiry ==
    [][\A u \in Users, r \in Records :
         /\ (/\ TryLock(u, r)
             /\ \E d \in FindLocks(locked_records, r) :
                   d.user # u /\ now - d.timestamp > lock_duration)
            => (/\ last'.attained_lock
                /\ FindLocks(locked_records', r) = {LockDoc(r, u, now)})
         /\ (/\ TryLock(u, r)
             /\ \E d \in FindLocks(locked_records, r) :
                   d.user # u /\ now - d.timestamp = lock_duration)
            => (~last'.attained_lock /\ locked_records' = locked_records)]_vars

C2_Witness ==
    /\ last.op = "tryLock"
    /\ last.attained_lock
    /\ \E d \in FindLocks(last.before, last.record_id) :
          d.user # last.user /\ now - d.timestamp > lock_duration
    /\ FindLocks(locked_records, last.record_id)
          = {LockDoc(last.record_id, last.user, now)}

\* C3 - Lock re-entrance: a tryLock by the current holder returns true,
\* whether or not the lock is older than lock_duration, keeps the caller as
\* the holder and sets the timestamp to the time of the call.
C3_Reentrance ==
    [][\A u \in Users, r \in Records :
         (/\ TryLock(u, r)
          /\ u \in Holders(locked_records, r))
         => (/\ last'.attained_lock
             /\ FindLocks(locked_records', r) = {LockDoc(r, u, now)})]_vars

C3_Witness ==
    /\ last.op = "tryLock"
    /\ last.attained_lock
    /\ \E d \in FindLocks(last.before, last.record_id) :
          d.user = last.user /\ now - d.timestamp > lock_duration
    /\ FindLocks(locked_records, last.record_id)
          = {LockDoc(last.record_id, last.user, now)}

\* C4 - Single lock per user: with atomically executed tryLock and release
\* calls every user holds at most one lock; a tryLock that acquires a record
\* removes the caller's lock on any other record, and a tryLock on that other
\* record by a different user would then succeed at once.
C4_SingleLockPerUser ==
    /\ [](\A u \in Users : Cardinality(LocksOf(locked_records, u)) <= 1)
    /\ [][\A u \in Users, r \in Records :
            (TryLock(u, r) /\ last'.attained_lock)
            => \A d \in LocksOf(locked_records, u) :
                  d.record_id # r
                  => /\ FindLocks(locked_records', d.record_id) = {}
                     /\ \A v \in Users \ {u} :
                           tryLockingRecord(locked_records', d.record_id, v, now)
                               .attained_lock]_vars

C4_Witness ==
    /\ last.op = "tryLock"
    /\ last.attained_lock
    /\ \E d \in LocksOf(last.before, last.user) :
          /\ d.record_id # last.record_id
          /\ now - d.timestamp < lock_duration
          /\ FindLocks(locked_records, d.record_id) = {}

(* ---------------------------------------------------------------------- *)
(* Properties of concurrent tryLockingRecord calls (SpecConc)              *)
(* ---------------------------------------------------------------------- *)

BothAttained(p, q) ==
    /\ p # q
    /\ pc[p] = "return" /\ pc[q] = "return"
    /\ call[p].record_id = call[q].record_id
    /\ call[p].user # call[q].user
    /\ call[p].branch = "free" /\ call[q].branch = "free"
    /\ call[p].attained_lock /\ call[q].attained_lock

C6_RaceBothSucceed ==
    \A p \in Procs, q \in Procs :
        BothAttained(p, q)
        => Cardinality({call[p].user, call[q].user}
                       \cap Holders(locked_records, call[p].record_id)) <= 1

C6_Witness ==
    \E p \in Procs, q \in Procs :
        /\ BothAttained(p, q)
        /\ Cardinality(FindLocks(locked_records, call[p].record_id)) = 1

(* ---------------------------------------------------------------------- *)
(* Properties of the record access layer (SpecAccess)                      *)
(* ---------------------------------------------------------------------- *)
HeldByOther(record_id, user) ==
    \E d \in FindLocks(locked_records, record_id) :
        d.user # user /\ now - d.timestamp < lock_duration

\* the value stored under key in an attribute list
AttributeValue(attributes, key) ==
    LET i == CHOOSE j \in 1..Len(attributes) : attributes[j].key = key
    IN  attributes[i].value

AttributeKeys(attributes) == {attributes[j].key : j \in 1..Len(attributes)}

\* C7 - updateRecord on behalf of a user changes the stored record (or the
\* history) only if tryLock(record, user) succeeded within the call; when the
\* lock is held by another user and is younger than lock_duration the call
\* returns False and neither the record nor the history is changed.
C7_UpdateRequiresLock ==
    [][\A u \in Users :
         (last'.op = "update" /\ last'.user = u)
         => \A request \in UpdateRequests(u) :
               Update(u, request)
               => /\ (records' # records \/ history' # history)
                     => tryLockingRecord(locked_records, copy[u]._id, u, now)
                            .attained_lock
                  /\ HeldByOther(copy[u]._id, u)
                     => /\ last'.returned = "False"
                        /\ records' = records
                        /\ history' = history]_vars

C7_Witness ==
    /\ last.op = "update"
    /\ last.user \in Users
    /\ last.returned = "False"
    /\ HeldByOther(last.record_id, last.user)
    /\ now > 0

\* C8 as stated - Reviewers do not clobber each other: a successful
\* attributesList update by user u never changes an attribute value that
\* another user v persisted and that u's fetched copy does not contain yet.
C8_NoClobber ==
    [][\A u \in Users :
         (last'.op = "update" /\ last'.user = u)
         => \A request \in UpdateRequests(u) :
               (/\ Update(u, request)
                /\ request.update_type = "attributesList"
                /\ last'.returned = "data_update")
               => \A v \in Users \ {u} :
                     \A k \in AttributeKeys(records[copy[u]._id].attributesList) :
                        (/\ AttributeValue(records[copy[u]._id].attributesList, k)
                               = EditValue(v)
                         /\ AttributeValue(ClientDocument(u).attributesList, k)
                               # EditValue(v))
                        => AttributeValue(records'[copy[u]._id].attributesList, k)
                              = EditValue(v)]_vars

\* C9 - Scenario: A fetches the unreviewed, unlocked R1 and gets the lock
\* (is_locked False); B fetches R1 within lock_duration and gets the same
\* record data with is_locked True while A keeps the lock; lock_duration + 1
\* after A's fetch B's updateRecord succeeds and B owns the lock; A's next
\* fetch, made while B's lock is fresh, returns is_locked True.
C9_Scenario ==
    /\ scenario.stage = 1
       => /\ last.op = "fetch" /\ last.found /\ ~last.is_locked
          /\ FindLocks(locked_records, "R1") = {LockDoc("R1", "A", scenario.t)}
    /\ scenario.stage = 2
       => /\ last.op = "fetch" /\ last.found /\ last.is_locked
          /\ copy["B"] = copy["A"]
          /\ FindLocks(locked_records, "R1") = {LockDoc("R1", "A", scenario.t)}
    /\ scenario.stage = 3
       => /\ last.op = "update" /\ last.returned = "data_update"
          /\ FindLocks(locked_records, "R1") = {LockDoc("R1", "B", scenario.t)}
    /\ scenario.stage = 4
       => /\ last.op = "fetch" /\ last.found /\ last.is_locked
          /\ Holders(locked_records, "R1") = {"B"}

C9_Witness ==
    /\ scenario.stage = 4
    /\ last.user = "A"
    /\ last.is_locked

\* C10 - fetchRecordData for an existing record in the user's scope returns
\* the record's data with is_locked true exactly when tryLock(record, user)
\* did not succeed; a lock held by someone else never makes it return no
\* record.
C10_FetchReturnsRecord ==
    [][\A u \in Users, r \in Records :
         (/\ last'.op = "fetch" /\ last'.user = u /\ last'.record_id = r
          /\ Fetch(u, r)
          /\ records[r] # NoDocument
          /\ records[r].record_group_id \in getUserRecordGroups(u))
         => LET lock == tryLockingRecord(locked_records, r, u, now)
            IN  /\ last'.found
                /\ \A k \in DOMAIN records[r] \ {"attributesList"} :
                      copy'[u][k] = records[r][k]
                /\ last'.is_locked = ~lock.attained_lock
                /\ locked_records' = lock.locks]_vars

C10_Witness ==
    /\ last.op = "fetch"
    /\ last.found
    /\ last.is_locked
    /\ copy[last.user]._id = last.record_id
    /\ HeldByOther(last.record_id, last.user)

(* ---------------------------------------------------------------------- *)
(* Properties of abandoned locks (SpecLive)                                *)
(* ---------------------------------------------------------------------- *)
\* the lock of holder on record_id, last refreshed early enough for the clock
\* of the model to pass its expiry
AbandonedLock(holder, record_id) ==
    /\ holder \notin active
    /\ \E d \in FindLocks(locked_records, record_id) :
          /\ d.user = holder
          /\ \E t \in Instants(MaxTime) : t - d.timestamp > lock_duration

\* C11: no permanent lock-out.  Once the holder of the lock on a record has
\* stopped calling, any other user who keeps retrying tryLockingRecord on the
\* record eventually holds its lock; no timer and no release are involved, the
\* expired lock stays in the store until that attempt replaces it.
C11_NoPermanentLockOut ==
    \A holder \in Users : \A u \in Users \ {holder} : \A r \in Records :
        [](AbandonedLock(holder, r)
           => <>(u \notin active \/ u \in Holders(locked_records, r)))

C11_Witness ==
    /\ last.op = "tryLock"
    /\ last.attained_lock
    /\ last.user \in active
    /\ \E d \in FindLocks(last.before, last.record_id) :
          /\ d.user # last.user
          /\ d.user \notin active
          /\ now - d.timestamp > lock_duration
    /\ Holders(locked_records, last.record_id) = {last.user}

(* ---------------------------------------------------------------------- *)
(* Properties of the lock manager when the store raises (SpecFault)        *)
(* ---------------------------------------------------------------------- *)
\* C12: when a lock-store operation raises during tryLockingRecord, the call
\* returns False and the lock store is what it was before the call: no lock
\* has been removed or changed, the caller's lock on another record included.
C12_RaiseDeniesAndKeepsLocks ==
    [][\A u \in Users, r \in Records, op \in StoreOps :
         TryLockRaising(u, r, op)
         => /\ last'.attained_lock = FALSE
            /\ locked_records' = locked_records]_vars

(* ---------------------------------------------------------------------- *)
(* Properties of releaseRecord (Spec)                                      *)
(* ---------------------------------------------------------------------- *)
\* C13: releaseRecord(record_id, user) removes every lock whose record_id is
\* the given record_id or whose user is the given user (both kinds when both
\* are given), leaves every other lock as it is, and changes nothing when no
\* lock matches.
C13_ReleaseRemovesEither ==
    [][\A r \in Records \cup {None}, u \in Users \cup {None} :
         Release(r, u)
         => locked_records' =
               {d \in locked_records : ~(d.record_id = r \/ d.user = u)}]_vars

(* ---------------------------------------------------------------------- *)
(* Properties of the review state machine (SpecReview)                     *)
(* ---------------------------------------------------------------------- *)
OutOfScope(record_id, user) ==
    /\ records[record_id] # NoDocument
    /\ records[record_id].record_group_id \notin getUserRecordGroups(user)

\* C14: fetchRecordData for a user whose record groups do not contain the
\* group of the record returns (None, None), the very result it returns for
\* a record id that has no record (here: no document, is_locked not True), and
\* in both cases the lock store is what it was before the call.
C14_ScopeDenialLikeNotFound ==
    [][\A u \in Users : \A r \in Records \cup {Missing} :
         (/\ last'.op = "fetch" /\ last'.user = u /\ last'.record_id = r
          /\ Fetch(u, r)
          /\ (records[r] = NoDocument \/ OutOfScope(r, u)))
         => /\ last'.found = FALSE
            /\ last'.is_locked = FALSE
            /\ locked_records' = locked_records
            /\ copy' = copy]_vars

\* a user who holds a lock has been denied a record of another team
C14_Witness ==
    /\ last.op = "fetch"
    /\ OutOfScope(last.record_id, last.user)
    /\ ~last.found
    /\ LocksOf(locked_records, last.user) # {}
    /\ FindLocks(locked_records, last.record_id) = {}

\* an attribute or subattribute in the state resetRecord leaves
IsReset(attribute) ==
    /\ attribute.value = attribute.raw_text
    /\ attribute.confidence = attribute.ai_confidence
    /\ attribute.edited = FALSE
    /\ "cleaned" \in DOMAIN attribute /\ attribute.cleaned = FALSE
    /\ "cleaning_error" \in DOMAIN attribute /\ attribute.cleaning_error = "False"

ResetState(document) ==
    /\ document.review_status = "unreviewed"
    /\ "verification_status" \in DOMAIN document
    /\ document.verification_status = None
    /\ \A i \in 1..Len(document.attributesList) :
          /\ IsReset(document.attributesList[i])
          /\ \A j \in 1..Len(document.attributesList[i].subattributes) :
                IsReset(document.attributesList[i].subattributes[j])

\* the successful call of updateRecord a step is, if it is one
SuccessfulUpdate(user, request) ==
    /\ last'.op = "update" /\ last'.user = user
    /\ last'.returned = "data_update"
    /\ Update(user, request)

\* C15: reset round trip.  Whatever edits and cleanings the record and the
\* client's copy have gone through, a successful updateRecord with
\* update_type "review_status" and review_status "unreviewed" leaves the
\* stored record unreviewed, with verification_status None and every
\* attribute and subattribute with value = raw_text, confidence =
\* ai_confidence, edited, cleaned and cleaning_error all False.
C15_ResetRoundTrip ==
    [][\A u \in Reviewers : \A request \in ReviewRequests(u) :
         (/\ SuccessfulUpdate(u, request)
          /\ request.update_type = "review_status"
          /\ request.new_data.review_status = "unreviewed")
         => ResetState(records'[copy[u]._id])]_vars

\* a reset of a document with an edited and cleaned attribute
C15_Witness ==
    /\ last.op = "update" /\ last.returned = "data_update"
    /\ history # <<>>
    /\ Get(history[Len(history)].query, "review_status", None) = "unreviewed"
    /\ DOMAIN history[Len(history)].query =
          {"review_status", "attributesList", "verification_status"}
    /\ ResetState(records[last.record_id])
    /\ \E i \in 1..Len(ClientDocument(last.user).attributesList) :
          LET sent == ClientDocument(last.user).attributesList[i]
          IN  /\ sent.edited
              /\ Get(sent, "cleaned", FALSE)
              /\ sent.value # sent.raw_text

\* C16: a successful updateRecord with update_type "attributesList" moves
\* the stored review_status to "incomplete" exactly when the stored
\* review_status is "unreviewed", and leaves a stored review_status of
\* incomplete, reviewed or defective as it is.
C16_AutoAdvanceOnStoredStatus ==
    [][\A u \in Reviewers : \A request \in ReviewRequests(u) :
         (/\ SuccessfulUpdate(u, request)
          /\ request.update_type = "attributesList")
         => records'[copy[u]._id].review_status =
               IF records[copy[u]._id].review_status = "unreviewed"
               THEN "incomplete"
               ELSE records[copy[u]._id].review_status]_vars

\* C17: a successful updateRecord with update_type "review_status" and
\* review_status "incomplete" writes review_status "incomplete" and
\* verification_status None in one and the same $set, the one the history
\* entry records.
C17_IncompleteClearsVerification ==
    [][\A u \in Reviewers : \A request \in ReviewRequests(u) :
         (/\ SuccessfulUpdate(u, request)
          /\ request.update_type = "review_status"
          /\ request.new_data.review_status = "incomplete")
         => /\ records' = UpdateOneRecord(records, copy[u]._id,
                              [review_status |-> "incomplete",
                               verification_status |-> None])
            /\ records'[copy[u]._id].verification_status = None
            /\ records'[copy[u]._id].review_status = "incomplete"
            /\ history'[Len(history')].query =
                   [review_status |-> "incomplete", verification_status |-> None]]_vars

\* a verified record has been set back to incomplete
C17_Witness ==
    /\ last.op = "update" /\ last.returned = "data_update"
    /\ history # <<>>
    /\ DOMAIN history[Len(history)].query = {"review_status", "verification_status"}
    /\ history[Len(history)].query.review_status = "incomplete"
    /\ history[Len(history)].previous_state.verification_status.value = "verified"
    /\ records[last.record_id].verification_status = None

\* the top-level keys a request of a type other than "record" may write
RuleKeys ==
    {"review_status", "verification_status", "defective_categories",
     "defective_description"}

WrittenKeys(request) ==
    {request.update_type} \cup RuleKeys
    \cup (IF /\ request.update_type = "review_status"
              /\ request.new_data.review_status = "unreviewed"
           THEN {"attributesList"}
           ELSE {})

\* C18: partial update.  A successful updateRecord with an update_type K
\* other than "record" writes the top-level key K and the keys of the
\* review-status rules only; every other top-level field of the stored
\* record, and every other record, keeps its stored value, whatever new_data
\* carries for it.
C18_PartialUpdate ==
    [][\A u \in Reviewers : \A request \in ReviewRequests(u) :
         (/\ SuccessfulUpdate(u, request)
          /\ request.update_type # "record")
         => /\ \A k \in DOMAIN records[copy[u]._id] \ WrittenKeys(request) :
                  records'[copy[u]._id][k] = records[copy[u]._id][k]
            /\ DOMAIN records'[copy[u]._id] \ DOMAIN records[copy[u]._id]
                  \subseteq WrittenKeys(request)
            /\ \A r \in DOMAIN records \ {copy[u]._id} :
                  records'[r] = records[r]]_vars

\* a review_status update sent with a stale attributesList, which the stored
\* record has kept its own version of
C18_Witness ==
    /\ last.op = "update" /\ last.returned = "data_update"
    /\ history # <<>>
    /\ DOMAIN history[Len(history)].query = {"review_status"}
    /\ ClientDocument(last.user).attributesList
          # records[last.record_id].attributesList
    /\ records[last.record_id].attributesList[1].edited

\* C19: every call of updateRecord that changes the stored record appends
\* exactly one history entry with the action "updateRecord", the acting
\* user, the record id, the delta applied and, for every changed key, the
\* value stored immediately before the write.
C19_EveryChangeAudited ==
    [][\A r \in DOMAIN records :
         records'[r] # records[r]
         => /\ Len(history') = Len(history) + 1
            /\ LET entry == history'[Len(history')]
               IN  /\ entry.action = "updateRecord"
                   /\ entry.user = last'.user
                   /\ entry.record_id = r
                   /\ \A k \in DOMAIN entry.query : records'[r][k] = entry.query[k]
                   /\ \A k \in DOMAIN records'[r] :
                         (k \notin DOMAIN records[r] \/ records'[r][k] # records[r][k])
                         => /\ k \in DOMAIN entry.previous_state
                            /\ entry.previous_state[k].present = (k \in DOMAIN records[r])
                            /\ entry.previous_state[k].present
                                  => entry.previous_state[k].value = records[r][k]]_vars

(* ---------------------------------------------------------------------- *)
(* Properties of the audit trail when a store raises (SpecAudit)           *)
(* ---------------------------------------------------------------------- *)
\* C20: the audit is best effort.  When the read of the record's previous
\* state raises, or the insertion of the history entry raises, updateRecord
\* still writes the update to the record and returns the delta; when the
\* write of the record itself raises, the exception leaves updateRecord and
\* the record is not changed.
C20_AuditBestEffort ==
    [][\A u \in Reviewers : \A request \in AuditRequests(u) :
         \A raises \in RecordStoreOps :
           (/\ last'.op = "update" /\ last'.user = u
            /\ UpdateRaising(u, request, raises)
            /\ tryLockingRecord(locked_records, copy[u]._id, u, now).attained_lock)
           => IF raises = "records.update_one"
              THEN /\ last'.returned = "raised"
                   /\ records' = records
              ELSE /\ last'.returned = "data_update"
                   /\ records'[copy[u]._id][request.update_type]
                         = request.new_data[request.update_type]
                   /\ raises = "history.insert_one" => history' = history
                   /\ raises = "records.find"
                         => /\ Len(history') = Len(history) + 1
                            /\ history'[Len(history')].previous_state = NoDocument]_vars

\* an edit has been written although its history entry could not be inserted
C20_Witness ==
    /\ last.op = "update"
    /\ "raises" \in DOMAIN last
    /\ last.raises = "history.insert_one"
    /\ last.returned = "data_update"
    /\ history = <<>>
    /\ records[last.record_id].attributesList[1].edited
    /\ records[last.record_id].review_status = "incomplete"

(* ---------------------------------------------------------------------- *)
(* Claims about cleaning                                                   *)
(* ---------------------------------------------------------------------- *)
\* the cleaning function configured for a schema key of the record's group
ConfiguredFunction(document, attribute_key) ==
    SchemaGet(convert_processor_attributes_to_dict(
                  getProcessorByRecordGroupID(document.record_group_id)),
              attribute_key).cleaning_function

\* the records with an attribute list that the call of cleanCollection
\* recorded in last' was made on
CleanedRecords ==
    {r \in CleanScope(records, last'.location, last'._id) :
        "attributesList" \in DOMAIN records[r]}

FieldIs(attribute, field, v) == field \in DOMAIN attribute /\ attribute[field] = v

\* C21 - Cleaning isolation: when the cleaning function raises for one
\* attribute of a record in a pass of cleanCollection, the stored attribute
\* keeps its value and has cleaning_error = the message and cleaned = False,
\* every other attribute of the record with a cleaning function is stored
\* cleaned, and the write of the record has succeeded.
C21_CleaningIsolation ==
    [][(/\ last'.op = "cleanCollection"
        /\ CleanCollection(last'.location, last'._id, last'.raising))
       => \A r \in CleanedRecords :
            LET attributes == records[r].attributesList
                stored == records'[r].attributesList
                fn(i) == ConfiguredFunction(records[r], attributes[i].key)
            IN  (\E i \in 1..Len(attributes) :
                    fn(i) \in CLEANING_FUNCTIONS /\ attributes[i].key \in last'.raising)
                => /\ last'.written
                   /\ \A i \in 1..Len(attributes) :
                        fn(i) \in CLEANING_FUNCTIONS
                        => IF attributes[i].key \in last'.raising
                           THEN /\ stored[i].value = attributes[i].value
                                /\ FieldIs(stored[i], "cleaning_error", "error")
                                /\ FieldIs(stored[i], "cleaned", FALSE)
                           ELSE FieldIs(stored[i], "cleaned", TRUE)]_vars

\* the attribute cleanRecordAttribute leaves when the cleaning function fn
\* returns on the attribute named before
IsCleanedFrom(before, after, fn, t) ==
    LET v == before.value
        c == CleanedValue(fn, v)
    IN  /\ after.value = c
        /\ after.normalized_value = c
        /\ FieldIs(after, "uncleaned_value", v)
        /\ FieldIs(after, "cleaned", TRUE)
        /\ FieldIs(after, "cleaning_error", "False")
        /\ FieldIs(after, "last_cleaned", t)
        /\ after.key = before.key
        /\ after.raw_text = before.raw_text
        /\ after.edited = before.edited

\* C22 - When the configured cleaning function succeeds on an attribute with
\* prior value v and returns c, the attribute ends with value = c,
\* normalized_value = c, uncleaned_value = v, cleaned = True,
\* cleaning_error = False and last_cleaned set; key, raw_text and edited
\* are unchanged.  Checked for the top-level attributes a pass cleans and
\* for the subattributes it reaches.
C22_CleaningSuccess ==
    [][(/\ last'.op = "cleanCollection"
        /\ last'.written
        /\ CleanCollection(last'.location, last'._id, last'.raising))
       => \A r \in CleanedRecords :
            LET attributes == records[r].attributesList
                stored == records'[r].attributesList
                fn(key) == ConfiguredFunction(records[r], key)
            IN  \A i \in 1..Len(attributes) :
                   LET key == attributes[i].key
                   IN  /\ (fn(key) \in CLEANING_FUNCTIONS /\ key \notin last'.raising)
                          => IsCleanedFrom(attributes[i], stored[i], fn(key), now)
                       /\ (fn(key) \in CLEANING_FUNCTIONS /\ key \in last'.raising)
                          => \A j \in 1..Len(attributes[i].subattributes) :
                                LET sub == attributes[i].subattributes[j]
                                    subkey == key \o "::" \o sub.key
                                IN  (/\ fn(subkey) \in CLEANING_FUNCTIONS
                                     /\ subkey \notin last'.raising)
                                    => IsCleanedFrom(sub, stored[i].subattributes[j],
                                                     fn(subkey), now)]_vars

\* a4 has been cleaned twice, the second time from its cleaned value, and
\* the subattribute of a1 has been cleaned after a1's function raised
C22_Witness ==
    /\ last.op = "cleanCollection"
    /\ last.written
    /\ now > 0
    /\ LET a4 == records["R4"].attributesList[4]
           a1 == records["R4"].attributesList[1]
       IN  /\ FieldIs(a4, "cleaned", TRUE)
           /\ a4.value = "string_to_float(string_to_float(raw))"
           /\ a4.uncleaned_value = "string_to_float(raw)"
           /\ a4.last_cleaned = now
           /\ FieldIs(a1, "cleaned", FALSE)
           /\ FieldIs(a1.subattributes[1], "cleaned", TRUE)
           /\ a1.subattributes[1].value = "string_to_int(norm)"

\* C23 - Cleaning an attribute whose schema entry has no cleaning function
\* (None or the empty string) sets cleaned = False and changes no other
\* field of the attribute; an attribute whose key has no schema entry is
\* left entirely unchanged; the pass goes on to the write in both cases.
C23_NoFunctionNoOp ==
    [][(/\ last'.op = "cleanCollection"
        /\ CleanCollection(last'.location, last'._id, last'.raising)
        /\ \A r \in CleanScope(records, last'.location, last'._id) :
              "attributesList" \in DOMAIN records[r])
       => \A r \in CleanedRecords :
            LET attributes == records[r].attributesList
                stored == records'[r].attributesList
                schema(i) == SchemaGet(convert_processor_attributes_to_dict(
                                 getProcessorByRecordGroupID(records[r].record_group_id)),
                                 attributes[i].key)
            IN  /\ last'.written
                /\ \A i \in 1..Len(attributes) :
                      IF schema(i) = NoSchema
                      THEN stored[i] = attributes[i]
                      ELSE schema(i).cleaning_function \in {None, ""}
                           => /\ FieldIs(stored[i], "cleaned", FALSE)
                              /\ DOMAIN stored[i] = DOMAIN attributes[i] \cup {"cleaned"}
                              /\ \A f \in DOMAIN attributes[i] \ {"cleaned"} :
                                    stored[i][f] = attributes[i][f]]_vars

\* a pass has gone over R4: a2 (function None) and a3 (function "") are
\* marked, x (no schema entry) is not
C23_Witness ==
    /\ last.op = "cleanCollection"
    /\ last.written
    /\ LET attributes == records["R4"].attributesList
       IN  /\ FieldIs(attributes[2], "cleaned", FALSE)
           /\ FieldIs(attributes[3], "cleaned", FALSE)
           /\ "cleaning_error" \notin DOMAIN attributes[2]
           /\ "cleaned" \notin DOMAIN attributes[5]
           /\ FieldIs(attributes[4], "cleaned", TRUE)

\* the cleaning function has been applied to the attribute at time t: it
\* returned, or it raised
IsApplied(after, t) ==
    \/ FieldIs(after, "cleaned", TRUE) /\ FieldIs(after, "last_cleaned", t)
    \/ FieldIs(after, "cleaned", FALSE) /\ FieldIs(after, "cleaning_error", "error")

\* C24 - cleanCollection(scope, id) applies the configured cleaning function
\* to every top-level attribute and to every subattribute (schema key
\* "parent::sub") of every record in scope, whatever the outcome of cleaning
\* the parent, and persists the result with its bulk update.
C24_CleansEverySubattribute ==
    [][(/\ last'.op = "cleanCollection"
        /\ last'.location \in {"record", "record_group"}
        /\ CleanScope(records, last'.location, last'._id) # {}
        /\ CleanCollection(last'.location, last'._id, last'.raising))
       => /\ last'.written
          /\ \A r \in CleanedRecords :
               LET attributes == records[r].attributesList
                   stored == records'[r].attributesList
                   fn(key) == ConfiguredFunction(records[r], key)
               IN  \A i \in 1..Len(attributes) :
                      /\ fn(attributes[i].key) \in CLEANING_FUNCTIONS
                         => IsApplied(stored[i], now)
                      /\ \A j \in 1..Len(attributes[i].subattributes) :
                            fn(attributes[i].key \o "::" \o attributes[i].subattributes[j].key)
                               \in CLEANING_FUNCTIONS
                            => IsApplied(stored[i].subattributes[j], now)]_vars

(* ---------------------------------------------------------------------- *)
(* Claims about schema reconciliation                                      *)
(* ---------------------------------------------------------------------- *)
\* the names of the processor attributes of the call, and the
\* page_order_sort of a name
SchemaNames == {call.processor.attributes[i].name : i \in 1..Len(call.processor.attributes)}

PageOrderOf(name) ==
    LET pa == call.processor.attributes
    IN  pa[CHOOSE i \in 1..Len(pa) : pa[i].name = name].page_order_sort

\* the schema names no attribute of the call has
MissingKeys ==
    {k \in SchemaNames : \A i \in 1..Len(call.attributes) : call.attributes[i].key # k}

\* sortRecordAttributes has returned for a processor with attributes
Sorted ==
    /\ last.op = "sortRecordAttributes"
    /\ call.processor.found
    /\ call.processor.has_attributes

\* the attributes with a schema name are in page_order_sort order, each
\* missing name has one placeholder among them, and the attributes of the
\* record with a schema name are all there
ReconciledWith(IsPlaceholder(_)) ==
    LET sorted == last.sorted_attributes
    IN  /\ \A i, j \in 1..Len(sorted) :
              (i < j /\ sorted[i].key \in SchemaNames /\ sorted[j].key \in SchemaNames)
              => PageOrderOf(sorted[i].key) <= PageOrderOf(sorted[j].key)
        /\ \A k \in MissingKeys :
              /\ Cardinality({i \in 1..Len(sorted) : sorted[i].key = k}) = 1
              /\ \A i \in 1..Len(sorted) : sorted[i].key = k => IsPlaceholder(sorted[i])
        /\ \A i \in 1..Len(call.attributes) :
              call.attributes[i].key \in SchemaNames
              => \E j \in 1..Len(sorted) : sorted[j] = call.attributes[i]
        /\ last.requires_db_update

PlaceholderAsStated(attribute) ==
    /\ attribute.value = None
    /\ FieldIs(attribute, "cleaned", FALSE)

PlaceholderUnmarked(attribute) ==
    /\ attribute.value = None
    /\ attribute.raw_text = None
    /\ attribute.edited = FALSE
    /\ "cleaned" \notin DOMAIN attribute

Synthesized ==
    /\ call.processor.found
    /\ call.processor.has_attributes
    /\ MissingKeys # {}

\* C26 as stated - sortRecordAttributes returns requires_db_update = True
\* exactly when it synthesized at least one placeholder; for a record that
\* has every schema key it returns requires_db_update = False.
C26_FlagIffSynthesized ==
    last.op = "sortRecordAttributes" => (last.requires_db_update <=> Synthesized)

\* C26 amended - sortRecordAttributes returns requires_db_update = True
\* exactly when the processor has at least one attribute, whether or not a
\* placeholder was synthesized: True also for a record that has every
\* schema key, False without a processor or with an empty attribute list.
C26_FlagIffSchemaNonEmpty ==
    last.op = "sortRecordAttributes"
    => /\ last.requires_db_update
          <=> (/\ call.processor.found
               /\ call.processor.has_attributes
               /\ Len(call.processor.attributes) > 0)
       /\ Synthesized => last.requires_db_update

\* the record has every schema key, nothing was synthesized, and the flag
\* is set
C26_Witness ==
    /\ last.op = "sortRecordAttributes"
    /\ call.processor.attributes = <<SchemaEntry("k1", 1), SchemaEntry("k2", 2)>>
    /\ call.attributes = <<ExtractedAttribute("k1"), ExtractedAttribute("k2")>>
    /\ last.sorted_attributes = call.attributes
    /\ ~Synthesized
    /\ last.requires_db_update

(* ---------------------------------------------------------------------- *)
(* Claims about the fetched record                                         *)
(* ---------------------------------------------------------------------- *)
\* the attributes of the stored record r lack a name of the processor
LacksSchemaKey(r) ==
    \E i \in 1..Len(ProcessorAttributes) :
       FoundAttributes(records[r].attributesList, ProcessorAttributes[i].name) = <<>>

\* C27 - fetchRecordData returns the record with attributesList equal to
\* the schema-sorted attribute list, and when a placeholder was synthesized
\* the stored record's attributesList equals that corrected list by the
\* time the call returns.
C27_FetchReturnsSortedList ==
    [][\A u \in Users, r \in Records :
         (/\ last'.op = "fetch" /\ last'.user = u /\ last'.record_id = r
          /\ last'.found
          /\ Fetch(u, r))
         => LET sorted == sortRecordAttributes(records[r].attributesList,
                                               ProcessorAttributes)[1]
            IN  /\ Len(copy'[u].attributesList) = Len(sorted)
                /\ copy'[u].attributesList[1] = sorted[1]
                /\ copy'[u].attributesList = sorted
                /\ LacksSchemaKey(r) => records'[r].attributesList = sorted]_vars

(* ---------------------------------------------------------------------- *)
(* Claims about deletion                                                   *)
(* ---------------------------------------------------------------------- *)
\* C29 - Deletion never erases a record: every record removed from the
\* records collection (by deleteRecord, or by the record cascade of
\* deleteRecordGroup / deleteProject) is in the deleted-records store
\* afterwards.
C29_DeletionMovesRecords ==
    [][\A r \in DOMAIN records :
         (records[r] # NoDocument /\ records'[r] = NoDocument)
         => \E d \in db'.deleted_records : d._id = r]_vars

(* ---------------------------------------------------------------------- *)
(* Claims about navigation                                                 *)
(* ---------------------------------------------------------------------- *)
\* the records of the group of record r, and their dates being distinct
GroupOf(r) == GroupRecords(records, records[r].record_group_id)

DateOf(r) == records[r].dateCreated

DistinctDates(group) == \A p, q \in group : p # q => DateOf(p) # DateOf(q)

\* the record next_id names from record r, for distinct dates
NextOf(r) ==
    CHOOSE n \in getNextRecordId(records, DateOf(r), records[r].record_group_id) : TRUE

RECURSIVE Visited(_, _)
Visited(r, steps) ==
    IF steps = 0 THEN {r} ELSE {r} \cup Visited(NextOf(r), steps - 1)

\* C30 - For a record group whose records have pairwise distinct
\* dateCreated, fetchRecordData returns recordIndex = the number of records
\* of the group with dateCreated <= this record's, next_id = the record with
\* the smallest larger dateCreated (the group's earliest when there is
\* none) and previous_id = the record with the largest smaller dateCreated
\* (the latest when there is none); previous_id of the record named by
\* next_id is the record itself, and following next_id visits every record
\* of the group.
C30_Navigation ==
    (last.op = "navigate" /\ DistinctDates(GroupOf(last.record_id)))
    => LET r == last.record_id
           group == GroupOf(r)
           later == {q \in group : DateOf(q) > DateOf(r)}
           earlier == {q \in group : DateOf(q) < DateOf(r)}
           n == last.next_id
           p == last.previous_id
       IN  /\ last.recordIndex = Cardinality(earlier) + 1
           /\ n \in group
           /\ IF later # {}
              THEN n \in later /\ \A q \in later : DateOf(n) <= DateOf(q)
              ELSE \A q \in group : DateOf(n) <= DateOf(q)
           /\ p \in group
           /\ IF earlier # {}
              THEN p \in earlier /\ \A q \in earlier : DateOf(p) >= DateOf(q)
              ELSE \A q \in group : DateOf(p) >= DateOf(q)
           /\ getPreviousRecordId(records, DateOf(n), records[n].record_group_id) = {r}
           /\ Visited(r, Cardinality(group) - 1) = group

\* R2 is the latest of the three records of G1, with R3 before it and R1
\* first: its next_id wraps around to R1
C30_Witness ==
    /\ last.op = "navigate"
    /\ last.record_id = "R2"
    /\ GroupOf("R2") = {"R1", "R2", "R3"}
    /\ DateOf("R1") < DateOf("R3") /\ DateOf("R3") < DateOf("R2")
    /\ last.recordIndex = 3
    /\ last.next_id = "R1"
    /\ last.previous_id = "R3"

(* ---------------------------------------------------------------------- *)
(* SpecRaw: the review requests of SpecReview, and a client that sends an  *)
(* attributesList in which it has rewritten the raw_text of an attribute   *)
(* ---------------------------------------------------------------------- *)
\* the request body is whatever the client sends: update_record reads it
\* with request.json() and hands it to updateRecord as it is
ClientRawEdit(user, i) ==
    [ClientDocument(user) EXCEPT !.attributesList[i].raw_text = EditValue(user)]

RawRequests(user) ==
    IF copy[user] = NoDocument
    THEN {}
    ELSE ReviewRequests(user)
         \cup {Request("attributesList", ClientRawEdit(user, EditIndex(user)),
                       NoField, {})}

RawUpdate(user) == \E request \in RawRequests(user) : Update(user, request)

NextRaw ==
    \/ \E u \in Reviewers : \E r \in ReviewedRecords(u) : Fetch(u, r)
    \/ \E u \in Reviewers : RawUpdate(u)
    \/ ProcessImage(Uploaded)

SpecRaw == Init /\ [][NextRaw]_vars

\* the raw_text of the attributes and subattributes of an attribute list,
\* by position
SameRawText(before, after) ==
    \A i \in 1..Len(before) :
       (i <= Len(after) /\ after[i].key = before[i].key)
       => /\ after[i].raw_text = before[i].raw_text
          /\ \A j \in 1..Len(before[i].subattributes) :
                j <= Len(after[i].subattributes)
                => after[i].subattributes[j].raw_text =
                       before[i].subattributes[j].raw_text

\* C31: raw_text is immutable once extraction has set it.  No step
\* (updateRecord with a client-supplied attributesList, with or without
\* cleaning, the reset to unreviewed, the schema sort of a fetch) changes the
\* stored raw_text of an attribute or subattribute that the record already
\* has.
C31_RawTextImmutable ==
    [][\A r \in DOMAIN records :
         (/\ "attributesList" \in DOMAIN records[r]
          /\ "attributesList" \in DOMAIN records'[r])
         => SameRawText(records[r].attributesList, records'[r].attributesList)]_vars

(* ---------------------------------------------------------------------- *)
(* SpecExtract: process_image turning the entities of the extraction       *)
(* service into the attributesList of the uploaded record                  *)
(* ---------------------------------------------------------------------- *)
\* at most MaxEntities entities in the answer of the extraction service
MaxEntities == 3

\* an entity: type_ and mention_text (no normalized value, no properties)
Entity(type_, mention_text) == [type_ |-> type_, mention_text |-> mention_text]

EntityTypes == {"k1", "k2"}

\* the i-th entity mentions the text m<i>, so that entities of one type differ
MentionText(i) == "m" \o ToString(i)

DocumentEntities ==
    UNION {{[i \in 1..n |-> Entity(types[i], MentionText(i))] :
               types \in [1..n -> EntityTypes]} : n \in 0..MaxEntities}

\* the loop over document_entities: one attribute appended per entity, under
\* the key entity.type_ as it is
EntityAttributes(document_entities) ==
    [i \in 1..Len(document_entities) |->
        [key |-> document_entities[i].type_, ai_confidence |-> "c90",
         confidence |-> "c90", raw_text |-> document_entities[i].mention_text,
         value |-> document_entities[i].mention_text, normalized_value |-> "",
         subattributes |-> <<>>, isSubattribute |-> FALSE, edited |-> FALSE]]

\* found_attributes[original_attribute] = len(attributesList): the position
\* of the last attribute appended under the key, 0 when there is none
found_attributes(attributesList, attr) ==
    LET found == {i \in 1..Len(attributesList) : attributesList[i].key = attr}
    IN  IF found = {} THEN 0 ELSE CHOOSE i \in found : \A j \in found : j <= i

\* the attribute process_image adds for a processor attribute that was not found
NotFoundAttribute(attr) ==
    [key |-> attr, ai_confidence |-> None, confidence |-> None, raw_text |-> "",
     value |-> "", normalized_value |-> None, subattributes |-> <<>>,
     isSubattribute |-> FALSE, edited |-> FALSE]

sortedAttributesList(document_entities, processor_attributes) ==
    LET attributesList == EntityAttributes(document_entities)
    IN  [p \in 1..Len(processor_attributes) |->
            LET attr == processor_attributes[p].name
                idx  == found_attributes(attributesList, attr)
            IN  IF idx # 0 THEN attributesList[idx] ELSE NotFoundAttribute(attr)]

\* the record process_image passes to updateRecord
process_image(rg_id, document_entities, processor_attributes) ==
    [record_group_id |-> rg_id,
     attributesList |-> sortedAttributesList(document_entities, processor_attributes),
     filename |-> "f.png",
     status |-> "digitized"]

ExtractProcessorAttributes ==
    {<<SchemaEntry("k1", 1), SchemaEntry("k2", 2)>>,
     <<SchemaEntry("k2", 2), SchemaEntry("k1", 1)>>,
     <<SchemaEntry("k1", 1)>>,
     <<SchemaEntry("k2", 2)>>}

\* call holds the answer of the extraction service and the processor attributes
InitExtract ==
    /\ locked_records = {}
    /\ records = [r \in {Uploaded} |-> UploadedRecord(r)]
    /\ history = <<>>
    /\ now = 0
    /\ last = [op |-> "init"]
    /\ copy = [u \in Users |-> NoDocument]
    /\ scenario = NoScenario
    /\ pc = [p \in Procs |-> "idle"]
    /\ \E document_entities \in DocumentEntities,
          processor_attributes \in ExtractProcessorAttributes :
          call = [document_entities |-> document_entities,
                  processor_attributes |-> processor_attributes]
    /\ active = Users
    /\ db = InitialDb

ExtractImage(record_id) ==
    LET record == process_image(RecordGroupOf(record_id), call.document_entities,
                                call.processor_attributes)
        res == updateRecord(locked_records, records, history, now, record_id,
                            record, "record", NoField, None, TRUE, NoFault)
    IN  /\ records[record_id].status = "processing"
        /\ locked_records' = res.locks
        /\ records' = res.records
        /\ history' = res.history
        /\ last' = [op |-> "process_image", user |-> None, record_id |-> record_id,
                    returned |-> res.returned]
        /\ UNCHANGED <<now, copy, scenario, pc, call, active, db>>

NextExtract == ExtractImage(Uploaded)

SpecExtract == InitExtract /\ [][NextExtract]_vars

\* the keys under which the n entities of one type are to be stored
SuffixedKeys(type_, n) ==
    {IF i = 1 THEN type_ ELSE type_ \o "_" \o ToString(i) : i \in 1..n}

\* C32: after extraction the keys of the top-level attributesList are
\* pairwise distinct, and every entity the extraction service returned
\* under a name of the processor's schema is kept: the first of a type under
\* the type as key, the second and later ones under the key suffixed _2,
\* _3, ...
C32_ExtractionKeepsDuplicates ==
    (last.op = "process_image")
    => LET stored == records[last.record_id].attributesList
       IN  /\ \A i, j \in 1..Len(stored) : i # j => stored[i].key # stored[j].key
           /\ \A type_ \in {call.processor_attributes[p].name :
                               p \in 1..Len(call.processor_attributes)} :
                 LET of_type == {i \in 1..Len(call.document_entities) :
                                    call.document_entities[i].type_ = type_}
                 IN  \A k \in SuffixedKeys(type_, Cardinality(of_type)) :
                        \E i \in 1..Len(stored) : stored[i].key = k

(* ---------------------------------------------------------------------- *)
(* Claims about the attributes sortRecordAttributes keeps                  *)
(* ---------------------------------------------------------------------- *)
Occurrences(attributes, attribute) ==
    Cardinality({i \in 1..Len(attributes) : attributes[i] = attribute})

HasSchemaName(attribute) == attribute.key \in SchemaNames
HasNoSchemaName(attribute) == attribute.key \notin SchemaNames

\* every attribute of the input is in the output as often as in the input;
\* those with a schema name come first, in page_order_sort order, the others
\* after them in the order of the input
KeepsAllAttributes ==
    LET sorted == last.sorted_attributes
    IN  /\ \A i \in 1..Len(call.attributes) :
              Occurrences(sorted, call.attributes[i]) =
                  Occurrences(call.attributes, call.attributes[i])
        /\ \A i, j \in 1..Len(sorted) :
              (i < j /\ HasSchemaName(sorted[j]))
              => /\ HasSchemaName(sorted[i])
                 /\ PageOrderOf(sorted[i].key) <= PageOrderOf(sorted[j].key)
        /\ SelectSeq(sorted, HasNoSchemaName) = SelectSeq(call.attributes, HasNoSchemaName)

\* the output holds attributes of the input with a schema name, and
\* placeholders, only
KeepsSchemaAttributesOnly ==
    LET sorted == last.sorted_attributes
    IN  \A i \in 1..Len(sorted) :
           /\ HasSchemaName(sorted[i])
           /\ \/ \E j \in 1..Len(call.attributes) : call.attributes[j] = sorted[i]
              \/ sorted[i].key \in MissingKeys /\ PlaceholderUnmarked(sorted[i])

updateRecordReviewStatus(L, recs, hist, t, record_id, review_status, user_info) ==
    updateRecord(L, recs, hist, t, record_id, [review_status |-> review_status],
                 "record", user_info, None, FALSE, NoFault)

UpdateReviewStatus(user, record_id, review_status) ==
    LET res == updateRecordReviewStatus(locked_records, records, history, now,
                                        record_id, review_status, [email |-> user])
    IN  /\ Len(res.history) <= MaxHist
        /\ locked_records' = res.locks
        /\ records' = res.records
        /\ history' = res.history
        /\ last' = [op |-> "updateRecordReviewStatus", user |-> user,
                    record_id |-> record_id, review_status |-> review_status]
        /\ UNCHANGED <<now, copy, scenario, pc, call, active, db>>

\* update_record/{record_id}: the record id is a part of the path, the
\* caller need not have fetched the record
DirectStatuses == {"reviewed"}

DirectUpdate(user, record_id, review_status) ==
    LET res == updateRecord(locked_records, records, history, now, record_id,
                            [review_status |-> review_status], "review_status",
                            NoField, user, FALSE, NoFault)
    IN  /\ Len(res.history) <= MaxHist
        /\ locked_records' = res.locks
        /\ records' = res.records
        /\ history' = res.history
        /\ last' = [op |-> "update", user |-> user, record_id |-> record_id,
                    returned |-> res.returned]
        /\ UNCHANGED <<now, copy, scenario, pc, call, active, db>>

NextCaller ==
    \/ \E t \in Instants(MaxAccessTime) : Tick(t)
    \/ \E u \in Users, r \in Records : TryLock(u, r)
    \/ \E u \in Users, r \in Records, s \in DirectStatuses : UpdateReviewStatus(u, r, s)
    \/ \E u \in Users, r \in Records, s \in DirectStatuses : DirectUpdate(u, r, s)

SpecCaller == Init /\ [][NextCaller]_vars

\* C34: updateRecordReviewStatus(record_id, review_status, user_info),
\* called by a user who can acquire the lock of the record (no other user
\* holds an unexpired lock on it), sets the stored review_status to the
\* given value and adds an entry to the history; the record is left as it
\* was only when another user holds the lock, unexpired.
C34_ReviewStatusSet ==
    [][\A u \in Users, r \in Records, s \in DirectStatuses :
         (/\ last'.op = "updateRecordReviewStatus"
          /\ UpdateReviewStatus(u, r, s))
         => IF HeldByOther(r, u)
            THEN records'[r] = records[r]
            ELSE /\ records'[r].review_status = s
                 /\ Len(history') = Len(history) + 1]_vars

\* C36: updateRecord called by a user whose record groups do not contain
\* the group of the record neither modifies the record nor acquires or takes
\* over the lock of the record: the access check of fetchRecordData guards
\* updates as well.
C36_UpdateChecksScope ==
    [][\A u \in Users, r \in Records, s \in DirectStatuses :
         (/\ last'.op = "update"
          /\ DirectUpdate(u, r, s)
          /\ OutOfScope(r, u))
         => /\ records'[r] = records[r]
            /\ FindLocks(locked_records', r) = FindLocks(locked_records, r)]_vars

(* ---------------------------------------------------------------------- *)
(* updateRecordNotes                                                       *)
(* ---------------------------------------------------------------------- *)
\* the note an "add" request appends; a reply carries repliesTo
NewNote(data, record_id, t, user) ==
    LET note == [text |-> data.text, record_id |-> record_id, timestamp |-> t,
                 creator |-> user, resolved |-> FALSE, deleted |-> FALSE,
                 lastUpdated |-> t, replies |-> <<>>, isReply |-> data.isReply,
                 lastUpdatedUser |-> user]
    IN  IF data.isReply THEN SetFields(note, [repliesTo |-> data.replyToIndex]) ELSE note

\* the list `updates` of updateRecordNotes; indexes count from 0 as in the
\* paths record_notes.<index>.<field>
NoteUpdates(data, record_id, t, user) ==
    LET touched == [lastUpdated |-> t, lastUpdatedUser |-> user]
    IN  IF data.update_type = "add"
        THEN IF data.isReply
             THEN << [op |-> "push", note |-> NewNote(data, record_id, t, user)],
                     [op |-> "push_reply", to |-> data.replyToIndex, index |-> data.index] >>
             ELSE << [op |-> "push", note |-> NewNote(data, record_id, t, user)] >>
        ELSE IF data.update_type = "edit"
        THEN << [op |-> "set", index |-> data.index,
                 fields |-> SetFields(touched, [text |-> data.text])] >>
        ELSE IF data.update_type = "delete"
        THEN << [op |-> "set", index |-> data.index,
                 fields |-> SetFields(touched, [deleted |-> TRUE])] >>
        ELSE IF data.update_type \in {"resolve", "unresolve"}
        THEN << [op |-> "set", index |-> data.index,
                 fields |-> SetFields(touched, [resolved |-> data.update_type = "resolve"])] >>
        ELSE << >>

\* db.records.update_one(search_query, update) for one element of updates,
\* on a record whose record_notes has the positions the update names
ApplyNoteUpdate(doc, update) ==
    LET notes == Get(doc, "record_notes", <<>>)
    IN  IF doc = NoDocument THEN doc
        ELSE IF update.op = "push"
        THEN SetFields(doc, [record_notes |-> Append(notes, update.note)])
        ELSE IF update.op = "push_reply"
        THEN SetFields(doc, [record_notes |->
                 [notes EXCEPT ![update.to + 1].replies = Append(@, update.index)]])
        ELSE SetFields(doc, [record_notes |->
                 [notes EXCEPT ![update.index + 1] = SetFields(@, update.fields)]])

RECURSIVE ApplyNoteUpdates(_, _, _, _, _)
\* for update in updates: update_one, then recordHistory
ApplyNoteUpdates(recs, hist, record_id, user, updates) ==
    IF updates = <<>> THEN [records |-> recs, history |-> hist]
    ELSE ApplyNoteUpdates(
             [recs EXCEPT ![record_id] = ApplyNoteUpdate(@, Head(updates))],
             recordHistory(hist, "updateRecordNotes", user, record_id,
                           Head(updates), NoDocument),
             record_id, user, Tail(updates))

\* updateRecordNotes(record_id, data, user_info) at time t: returns None
\* for an unknown update_type, record_notes otherwise; the closing find of a
\* record that does not exist raises
updateRecordNotes(recs, hist, t, record_id, data, user) ==
    LET updates == NoteUpdates(data, record_id, t, user)
        res == ApplyNoteUpdates(recs, hist, record_id, user, updates)
    IN  IF updates = <<>>
        THEN [records |-> recs, history |-> hist, returned |-> "None"]
        ELSE [records |-> res.records, history |-> res.history,
              returned |-> IF recs[record_id] = NoDocument THEN "raised"
                           ELSE "record_notes"]

(* ---------------------------------------------------------------------- *)
(* SpecGuard: a reviewer holds the lock of a record while other callers    *)
(* update it, annotate it, delete it and clean it                          *)
(* ---------------------------------------------------------------------- *)
\* at most MaxNotes notes on a record
MaxNotes == 1

NoteData(update_type, index, isReply) ==
    [update_type |-> update_type, index |-> index, text |-> "note",
     isReply |-> isReply, replyToIndex |-> 0]

\* the requests on the notes of a record: a first note, and on an existing
\* note a reply, an edit, a deletion, a resolution; and an unknown type
NoteRequests(doc) ==
    LET n == Len(Get(doc, "record_notes", <<>>))
    IN  {NoteData("add", n, FALSE), NoteData("archive", 0, FALSE)}
        \cup (IF n = 0 THEN {}
              ELSE {NoteData("add", n, TRUE)}
                   \cup {NoteData(update_type, 0, FALSE) :
                            update_type \in {"edit", "delete", "resolve", "unresolve"}})

UpdateNotes(user, record_id, data) ==
    LET res == updateRecordNotes(records, history, now, record_id, data, user)
    IN  /\ Len(res.history) <= MaxHist
        /\ Len(Get(res.records[record_id], "record_notes", <<>>)) <= MaxNotes
        /\ records' = res.records
        /\ history' = res.history
        /\ last' = [op |-> "updateRecordNotes", user |-> user, record_id |-> record_id,
                    returned |-> res.returned]
        /\ UNCHANGED <<locked_records, now, copy, scenario, pc, call, active, db>>

GuardedRecords == {"R1"}

NextGuard ==
    \/ \E t \in Instants(MaxAccessTime) : Tick(t)
    \/ \E u \in Users, r \in GuardedRecords : TryLock(u, r)
    \/ \E u \in Users, r \in GuardedRecords, s \in DirectStatuses : DirectUpdate(u, r, s)
    \/ \E u \in Users, r \in GuardedRecords :
          \E data \in NoteRequests(records[r]) : UpdateNotes(u, r, data)
    \/ \E u \in Users, r \in GuardedRecords : DeleteRecord(r, u)
    \/ \E r \in GuardedRecords : CleanCollection("record", r, {})

SpecGuard == Init /\ [][NextGuard]_vars

\* another user than the caller holds the lock of the record, unexpired;
\* cleanCollection has no caller of its own
LockedAgainst(record_id, caller) ==
    \E d \in FindLocks(locked_records, record_id) :
        d.user # caller /\ now - d.timestamp < lock_duration

\* C35: while a user holds a lock on a record that has not expired, no
\* updateRecord, updateRecordNotes or deleteRecord called by another user,
\* and no cleanCollection, changes or removes the stored document of the
\* record.
C35_LockGuardsEveryWriter ==
    [][\A r \in GuardedRecords :
         (/\ last'.op \in {"update", "updateRecordNotes", "deleteRecord",
                           "cleanCollection"}
          /\ LockedAgainst(r, IF last'.op = "cleanCollection" THEN None
                              ELSE last'.user))
         => records'[r] = records[r]]_vars

(* ---------------------------------------------------------------------- *)
(* Claims about the states of review and verification                      *)
(* ---------------------------------------------------------------------- *)
\* C37: in every reachable state a record whose review_status is
\* "unreviewed" or "incomplete" has verification_status None (or no
\* verification_status at all), whatever successful updateRecord calls led
\* to the state.
C37_UnreviewedIsUnverified ==
    \A r \in DOMAIN records :
       (/\ records[r] # NoDocument
        /\ records[r].review_status \in {"unreviewed", "incomplete"})
       => Get(records[r], "verification_status", None) = None

(* ---------------------------------------------------------------------- *)
(* Claims about the effects of updateRecord                                *)
(* ---------------------------------------------------------------------- *)
\* C38: an updateRecord call that returns False has no effect at all: the
\* records, the history and the lock store are what they were before the
\* call (no lock acquired, refreshed, taken over or released), also when
\* update_type is None and when user_info is None without forceUpdate.
C38_FalseHasNoEffect ==
    [][(last'.op = "update" /\ last'.returned = "False")
       => /\ records' = records
          /\ history' = history
          /\ locked_records' = locked_records]_vars

\* C39: the history holds an "updateRecord" entry only for updates whose
\* record write was applied: a call of updateRecord whose write of the
\* record fails, or that is left before the write, adds no entry that
\* remains.
C39_AuditOnlyAppliedWrites ==
    [][(/\ Len(history') > Len(history)
        /\ history'[Len(history')].action = "updateRecord")
       => (last'.op = "update" /\ last'.returned = "data_update")]_vars

(* ---------------------------------------------------------------------- *)
(* SpecRace: cleanCollection, one database operation per step, while       *)
(* reviewers fetch and update the records it cleans                        *)
(* ---------------------------------------------------------------------- *)
\* the job that runs cleanCollection
Cleaner == "p1"

\* cleanCollection up to bulk_write: db.records.find, then util.cleanRecords
\* on the documents in memory; call holds the documents as read and as
\* cleaned, whether bulk_write will be reached, and the number of runs of
\* cleanCollection so far (at most MaxCleanings)
CleanFind(location, _id) ==
    LET scope == CleanScope(records, location, _id)
        res == cleanCollection(records, location, _id, now, {})
        runs == Get(call[Cleaner], "runs", 0)
    IN  /\ pc[Cleaner] = "idle"
        /\ runs < MaxCleanings
        /\ pc' = [pc EXCEPT ![Cleaner] = "bulk_write"]
        /\ call' = [call EXCEPT ![Cleaner] =
                       [read |-> [r \in scope |-> records[r]],
                        documents |-> [r \in scope |-> res.records[r]],
                        written |-> res.written,
                        runs |-> runs + 1]]
        /\ last' = [op |-> "cleanCollection.find", location |-> location, _id |-> _id]
        /\ UNCHANGED <<locked_records, records, history, now, copy, scenario, active, db>>

\* db.records.bulk_write of UpdateOne({"_id": document["_id"]},
\* {"$set": document}) for each document read
CleanBulkWrite ==
    LET documents == call[Cleaner].documents
    IN  /\ pc[Cleaner] = "bulk_write"
        /\ pc' = [pc EXCEPT ![Cleaner] = "idle"]
        /\ records' = IF call[Cleaner].written
                      THEN [r \in DOMAIN records |->
                               IF r \in DOMAIN documents
                               THEN UpdateOneRecord(records, r, documents[r])[r]
                               ELSE records[r]]
                      ELSE records
        /\ last' = [op |-> "cleanCollection.bulk_write", written |-> call[Cleaner].written]
        /\ UNCHANGED <<locked_records, history, now, copy, scenario, call, active, db>>

RaceUpdate(user) ==
    /\ \E request \in AuditRequests(user) : Update(user, request)
    /\ Len(history') <= MaxAccessHist

NextRace ==
    \/ \E u \in Reviewers : Fetch(u, "R1")
    \/ \E u \in Reviewers : RaceUpdate(u)
    \/ CleanFind("record", "R1")
    \/ CleanFind("record_group", "G1")
    \/ CleanBulkWrite

SpecRace == Init /\ [][NextRace]_vars

\* C40: cleanCollection running concurrently with a reviewer's updateRecord
\* on a record in its scope never loses the reviewer's edit: a field that
\* updateRecord has written between the read of the record by
\* cleanCollection and its bulk write holds the value updateRecord gave it
\* after the bulk write too.
C40_CleaningKeepsConcurrentEdit ==
    [][(last'.op = "cleanCollection.bulk_write")
       => \A r \in DOMAIN call[Cleaner].read :
             \A k \in DOMAIN call[Cleaner].read[r] :
                records[r][k] # call[Cleaner].read[r][k]
                => records'[r][k] = records[r][k]]_vars
====
